---- MODULE Spec2Model ----
(***************************************************************************)
(* Observation scheduling and target assembly of alston-rt                 *)
(* (src/src/javascript/app_scripts.js).                                    *)
(*                                                                         *)
(* The spreadsheet is the state: the scheduling-block ledger is columns    *)
(* AK (37, dish id) and AL (38, block start) of sheet "Lookup", the staged *)
(* targets are column A of "DB TARGET LIST" and the observations column A  *)
(* of "DB OBS LIST".  Instants are integer milliseconds counted from the   *)
(* model's epoch.                                                          *)
(***************************************************************************)
EXTENDS Integers, Sequences, FiniteSets, TLC

VARIABLES lookupAK,    \* Lookup!AK, rows 2..MaxRow: dish id or ""
          lookupAL,    \* Lookup!AL, rows 2..MaxRow: block start or Blank
          targetList,  \* DB TARGET LIST!A2:A, one staged row per element
          obsStore,    \* DB OBS LIST!A2:A, one document per element
          now,         \* Date.now()
          ev,          \* record of the last handler run (history)
          exec,        \* two interleaved updateConsumedBlocks executions
          bc,          \* inputs and result of one block count computation
          form,        \* OBS DESIGN label/value rows and the document made of them
          calc,        \* one computation of the coordinate and altitude functions
          run          \* one run of onEditHandler, step by step

vars == <<lookupAK, lookupAL, targetList, obsStore, now, ev, exec, bc, form, calc, run>>

----------------------------------------------------------------------------
(* Bounds *)

MaxRow == 5        \* last row of the Lookup sheet the model writes
MaxStaged == 1     \* staged rows the model lets the operator accumulate
MaxObs == 1        \* documents the model lets DB OBS LIST hold

(* Program constants *)

MinuteMs == 60000               \* 60 * 1000
FiveDaysMs == 432000000         \* 5 * 24 * 60 * 60 * 1000
EpsInv == 1000000000            \* 1 / 1e-9
MHz == 1000000                  \* 1e6
LedgerFirstRow == 2             \* writeRow when column AK is empty
ExpiryStartRow == 3             \* startRow of clearExpiredBlocks

Rows == LedgerFirstRow..MaxRow
Blank == -1                     \* an empty cell of a date column
NoDish == ""                    \* an empty cell of a text column

Max(a, b) == IF a >= b THEN a ELSE b

----------------------------------------------------------------------------
(* Cell contents *)

DateCell(t) == [k |-> "date", t |-> t]
TextCell == [k |-> "text", t |-> 0]       \* text that is not a date
EmptyCell == [k |-> "empty", t |-> 0]     \* ""

NumCell(n) == [k |-> "num", v |-> n]
NumTextCell(n) == [k |-> "numtext", v |-> n]   \* the string "30"
NaNTextCell == [k |-> "text", v |-> 0]         \* the string "abc"
EmptyNumCell == [k |-> "empty", v |-> 0]       \* "", Number("") = 0

\* isNaN(blockSizeMin)
IsNaN(cell) == cell.k = "text"

\* value instanceof Date
IsDate(cell) == cell.k = "date"

----------------------------------------------------------------------------
(* Sheet "Lookup" *)

\* Sheet.getLastRow(): last row with content in any column; otherLast is the
\* last row used by the other columns of the sheet
GetLastRow(ak, al, otherLast) ==
    LET used == {r \in Rows : ak[r] # NoDish \/ al[r] # Blank}
    IN  IF used = {} THEN otherLast
        ELSE Max(otherLast, CHOOSE r \in used : \A s \in used : s <= r)

\* Math.ceil(durationMS / blockMS - 1e-9) for durationMS > 0, blockMS > 0.
\* The quotient is q + rem/blockMS; the 1e-9 swallows a remainder with
\* rem/blockMS <= 1e-9, that is rem <= blockMS \div 1e9.
BlockCount(durationMS, blockMS) ==
    LET q == durationMS \div blockMS
        rem == durationMS % blockMS
    IN  IF rem > blockMS \div EpsInv THEN q + 1 ELSE q

\* the scan with the row offset of colValues forgotten (lastUsed = i + 1)
LastUsedOffByOne(ak, lastRow) ==
    LET used == {r \in Rows : r <= lastRow /\ ak[r] # NoDish}
    IN  IF used = {} THEN 1
        ELSE (CHOOSE r \in used : \A s \in used : s <= r) - 1

\* the backward scan of column AK for the last non-empty cell
LastUsed(ak, lastRow) ==
    LET used == {r \in Rows : r <= lastRow /\ ak[r] # NoDish}
    IN  IF used = {} THEN 1
        ELSE CHOOSE r \in used : \A s \in used : s <= r

FirstFreeRow(ak, lastRow) ==
    IF lastRow >= 2 THEN LastUsed(ak, lastRow) + 1 ELSE LedgerFirstRow

\* the dish ids written one row too low
WriteAKBelow(ak, writeRow, n, dsh) ==
    [r \in Rows |-> IF r > writeRow /\ r <= writeRow + n THEN dsh ELSE ak[r]]

\* lookup.getRange(writeRow, 37, n, 2).setValues(rows)
WriteAK(ak, writeRow, n, dsh) ==
    [r \in Rows |-> IF r >= writeRow /\ r < writeRow + n THEN dsh ELSE ak[r]]

WriteAL(al, writeRow, n, start, blockMS) ==
    [r \in Rows |-> IF r >= writeRow /\ r < writeRow + n
                    THEN start + (r - writeRow) * blockMS ELSE al[r]]

\* the span taken without its sign (Math.abs)
DurationAbs(startCell, endCell) ==
    IF endCell.t >= startCell.t THEN endCell.t - startCell.t
    ELSE startCell.t - endCell.t

\* end.getTime() - start.getTime()
Duration(startCell, endCell) == endCell.t - startCell.t

\* updateConsumedBlocks(dsh_id): the resulting ledger, or the error thrown
updateConsumedBlocks(ak, al, dsh, startCell, endCell, blockCell, otherLast) ==
    LET unchanged(err) == [err |-> err, ak |-> ak, al |-> al,
                           writeRow |-> 0, n |-> 0, blockMS |-> 0]
    IN  IF ~IsDate(startCell) \/ ~IsDate(endCell)
        THEN unchanged("E32 and E33 must contain valid datetime values.")
        ELSE IF IsNaN(blockCell) \/ blockCell.v <= 0
        THEN unchanged("Invalid scheduling block size.")
        ELSE LET blockMS == blockCell.v * MinuteMs
                 durationMS == Duration(startCell, endCell)
             IN  IF durationMS <= 0
                 THEN unchanged("End datetime must be after start datetime.")
                 ELSE LET n == BlockCount(durationMS, blockMS)
                          writeRow == FirstFreeRow(ak, GetLastRow(ak, al, otherLast))
                      IN  IF n < 1
                          THEN unchanged("The number of rows in the range must be at least 1.")
                          ELSE [err |-> "",
                                ak |-> WriteAK(ak, writeRow, n, dsh),
                                al |-> WriteAL(al, writeRow, n, startCell.t, blockMS),
                                writeRow |-> writeRow, n |-> n, blockMS |-> blockMS]

\* clearExpiredBlocks() writing the values back one row higher, at row 2
clearExpiredBlocksAtTop(ak, al, nowMs, otherLast) ==
    LET lastRow == GetLastRow(ak, al, otherLast)
        cutoff == nowMs - FiveDaysMs
        kept(r) == IF al[r] # Blank /\ al[r] < cutoff THEN Blank ELSE al[r]
    IN  IF lastRow < ExpiryStartRow THEN al
        ELSE [r \in Rows |->
                IF r >= ExpiryStartRow - 1 /\ r < lastRow /\ r + 1 \in Rows
                THEN kept(r + 1)
                ELSE IF r >= ExpiryStartRow /\ r <= lastRow THEN Blank
                ELSE al[r]]

\* clearExpiredBlocks(): column AL after the call (column AK is not touched)
clearExpiredBlocks(ak, al, nowMs, otherLast) ==
    LET lastRow == GetLastRow(ak, al, otherLast)
        cutoff == nowMs - FiveDaysMs
    IN  IF lastRow < ExpiryStartRow THEN al
        ELSE [r \in Rows |->
                IF r >= ExpiryStartRow /\ r <= lastRow
                   /\ al[r] # Blank /\ al[r] < cutoff
                THEN Blank ELSE al[r]]

----------------------------------------------------------------------------
(* Sheets "DB TARGET LIST" and "DB OBS LIST": one text cell per row *)

Missing == [k |-> "missing", v |-> ""]      \* the key is absent (undefined)
Null == [k |-> "null", v |-> ""]            \* the key holds null
Obj(v) == [k |-> "obj", v |-> v]            \* the key holds an object

EmptyRow == [k |-> "empty", target |-> Missing, target_config |-> Missing]
BadRow == [k |-> "bad", target |-> Missing, target_config |-> Missing]
JsonRow(t, c) == [k |-> "json", target |-> t, target_config |-> c]

\* a column of cells as a sequence: the cells from row 2 to the last
\* non-empty one (Sheet.getLastRow() is Len + 1, row 1 being the header)
RECURSIVE Trim(_)
Trim(col) ==
    IF col # <<>> /\ col[Len(col)].k = "empty"
    THEN Trim(SubSeq(col, 1, Len(col) - 1)) ELSE col

SetRow(col, i, cell) ==
    Trim([j \in 1..Max(Len(col), i) |->
            IF j = i THEN cell ELSE IF j <= Len(col) THEN col[j] ELSE EmptyRow])

\* the document written to row 2, above what is there
PrependRow(col, doc) == <<doc>> \o col

\* getRange("A" + (lastRow < 2 ? 2 : lastRow + 1)).setValue(doc)
AppendRow(col, doc) == Append(col, doc)

\* the rows that hold JSON written back, the others dropped
consolidateRowsOfJson(col) == SelectSeq(col, LAMBDA cell : cell.k = "json")

\* consolidateRows(sheet): drop the empty rows, keep the order
consolidateRows(col) == SelectSeq(col, LAMBDA cell : cell.k # "empty")

----------------------------------------------------------------------------
(* Observation submission *)

\* text.split(" ")[0] of the dish cell; a cell is its list of tokens
DishId(dishCell) ==
    IF dishCell = <<>> THEN "<dish not selected>" ELSE dishCell[1]

\* Utilities.formatDate(date, "UTC", "yyyy-MM-dd'T'HH:mm'Z'"): the minute
FormatMinute(t) == t \div MinuteMs

InvalidDate == -1      \* formatDate of new Date("undefined")

\* "ODT-" + start_datetime + "-" + dsh_id
ObsId(minute, dsh) == [minute |-> minute, dsh |-> dsh]

\* the body of targetValues.forEach for one row: is the pair pushed?
RowIncluded(cell) ==
    /\ cell.k = "json"
    /\ cell.target.k = "obj"
    /\ cell.target_config.k = "obj"

\* a key of a TargetConfig: absent, a number, or text that is no number;
\* NaN is what Number(text) * 1e6 gives (JSON.stringify writes it as null)
NoField == [k |-> "absent", n |-> 0]
NumField(n) == [k |-> "num", n |-> n]
TextField == [k |-> "text", n |-> 0]
NaNField == [k |-> "nan", n |-> 0]

\* the TargetConfig of a staged row; gain stands for the keys not in keysToScale
Config(cf, bw, sr, g) ==
    [center_freq |-> cf, bandwidth |-> bw, sample_rate |-> sr, gain |-> g]

\* if (target_config.hasOwnProperty(key)) target_config[key] = Number(..) * 1e6
ScaleField(f) ==
    IF f.k = "absent" THEN f
    ELSE IF f.k = "num" THEN NumField(f.n * MHz)
    ELSE NaNField

\* every numeric key multiplied, gain as well
ScaledConfigAllKeys(cfg, index, obs_id) ==
    [center_freq |-> ScaleField(cfg.v.center_freq),
     bandwidth |-> ScaleField(cfg.v.bandwidth),
     sample_rate |-> ScaleField(cfg.v.sample_rate),
     gain |-> ScaleField(cfg.v.gain),
     tgt_idx |-> index, obs_id |-> obs_id]

ScaledConfig(cfg, index, obs_id) ==
    [center_freq |-> ScaleField(cfg.v.center_freq),
     bandwidth |-> ScaleField(cfg.v.bandwidth),
     sample_rate |-> ScaleField(cfg.v.sample_rate),
     gain |-> cfg.v.gain,
     tgt_idx |-> index, obs_id |-> obs_id]

\* the index counted from one
StampedTargetOneBased(tgt, index, obs_id) ==
    [name |-> tgt.v, tgt_idx |-> index + 1, obs_id |-> obs_id]

StampedTarget(tgt, index, obs_id) ==
    [name |-> tgt.v, tgt_idx |-> index, obs_id |-> obs_id]

\* the loop leaving at the first row that fails to parse
RECURSIVE AssembleTargetsUntilError(_, _, _)
AssembleTargetsUntilError(col, n, obs_id) ==
    IF n = 0 THEN <<>>
    ELSE LET rest == AssembleTargetsUntilError(col, n - 1, obs_id)
         IN  IF RowIncluded(col[n]) /\ \A i \in 1..n : col[i].k # "bad"
             THEN Append(rest, StampedTarget(col[n].target, n - 1, obs_id))
             ELSE rest

\* targets and target_configs after the loop over rows 1..n of the column
RECURSIVE AssembleTargets(_, _, _)
AssembleTargets(col, n, obs_id) ==
    IF n = 0 THEN <<>>
    ELSE LET rest == AssembleTargets(col, n - 1, obs_id)
         IN  IF RowIncluded(col[n])
             THEN Append(rest, StampedTarget(col[n].target, n - 1, obs_id))
             ELSE rest

\* the loop pushing the target_config before the target is looked at
RECURSIVE AssembleConfigsUnpaired(_, _, _)
AssembleConfigsUnpaired(col, n, obs_id) ==
    IF n = 0 THEN <<>>
    ELSE LET rest == AssembleConfigsUnpaired(col, n - 1, obs_id)
         IN  IF col[n].k = "json" /\ col[n].target_config.k = "obj"
             THEN Append(rest, ScaledConfig(col[n].target_config, n - 1, obs_id))
             ELSE rest

RECURSIVE AssembleConfigs(_, _, _)
AssembleConfigs(col, n, obs_id) ==
    IF n = 0 THEN <<>>
    ELSE LET rest == AssembleConfigs(col, n - 1, obs_id)
         IN  IF RowIncluded(col[n])
             THEN Append(rest, ScaledConfig(col[n].target_config, n - 1, obs_id))
             ELSE rest

\* the document written with obs_state of a later stage
ObservationInProgress(obs_id, dsh, start, targets, configs) ==
    [k |-> "json", obs_id |-> obs_id, dsh_id |-> dsh,
     scheduling_block_start |-> start, obs_state |-> "IN_PROGRESS",
     targets |-> targets, target_configs |-> configs]

Observation(obs_id, dsh, start, targets, configs) ==
    [k |-> "json", obs_id |-> obs_id, dsh_id |-> dsh,
     scheduling_block_start |-> start, obs_state |-> "EMPTY",
     targets |-> targets, target_configs |-> configs]

NoEvent ==
    [op |-> "none", result |-> "", midAL |-> lookupAL, dsh |-> "",
     start |-> EmptyCell, end |-> EmptyCell, block |-> EmptyNumCell,
     writeRow |-> 0, n |-> 0, blockMS |-> 0, rows |-> 0, bad |-> 0]

\* the submission throws before it writes to DB OBS LIST
EndsBeforeWrite(startCell, formatThrows) ==
    startCell.k = "empty" \/ (~IsDate(startCell) /\ formatThrows)

\* onEditHandler, sheet OBS DESIGN, cell D3 ticked
Submit(dishCell, startCell, endCell, blockCell, otherLast, formatThrows) ==
    LET dsh == DishId(dishCell)
        base == [NoEvent EXCEPT !.op = "submit", !.dsh = dsh,
                    !.start = startCell, !.end = endCell, !.block = blockCell,
                    !.rows = Len(targetList),
                    !.bad = Cardinality({i \in 1..Len(targetList) :
                                            targetList[i].k = "bad"})]
    IN  IF startCell.k = "empty"
        THEN \* no scheduling_block_start key: thrown before anything is written
             /\ ev' = [base EXCEPT !.result = "no-start"]
             /\ UNCHANGED <<lookupAK, lookupAL, targetList, obsStore>>
        ELSE IF ~IsDate(startCell) /\ formatThrows
        THEN /\ ev' = [base EXCEPT !.result = "format-error"]
             /\ UNCHANGED <<lookupAK, lookupAL, targetList, obsStore>>
        ELSE
          LET minute == IF IsDate(startCell) THEN FormatMinute(startCell.t)
                        ELSE InvalidDate
              obs_id == ObsId(minute, dsh)
              n == Len(targetList)
              obs == Observation(obs_id, dsh, startCell,
                                 AssembleTargets(targetList, n, obs_id),
                                 AssembleConfigs(targetList, n, obs_id))
              upd == updateConsumedBlocks(lookupAK, lookupAL, dsh, startCell,
                                          endCell, blockCell, otherLast)
          IN  /\ obsStore' = AppendRow(obsStore, obs)
              /\ IF upd.err # ""
                 THEN \* updateConsumedBlocks throws: the handler ends here
                      /\ ev' = [base EXCEPT !.result = "ledger-error"]
                      /\ UNCHANGED <<lookupAK, lookupAL, targetList>>
                 ELSE /\ upd.writeRow + upd.n - 1 <= MaxRow
                      /\ lookupAK' = upd.ak
                      /\ lookupAL' = clearExpiredBlocks(upd.ak, upd.al, now, otherLast)
                      /\ targetList' = <<>>
                      /\ ev' = [base EXCEPT !.result = "ok",
                                   !.midAL = upd.al, !.writeRow = upd.writeRow,
                                   !.n = upd.n, !.blockMS = upd.blockMS]

\* onEditHandler, sheet OBS DESIGN, cell B34 ticked
\* the row written over the last staged row
AddTargetOverLastRow(tgt, cfg) ==
    /\ targetList' = SetRow(targetList, Max(Len(targetList), 1),
                            JsonRow(tgt, Obj(cfg)))
    /\ ev' = [NoEvent EXCEPT !.op = "add-target", !.result = "ok"]
    /\ UNCHANGED <<lookupAK, lookupAL, obsStore>>

AddTarget(tgt, cfg) ==
    /\ targetList' = AppendRow(targetList, JsonRow(tgt, Obj(cfg)))
    /\ ev' = [NoEvent EXCEPT !.op = "add-target", !.result = "ok"]
    /\ UNCHANGED <<lookupAK, lookupAL, obsStore>>

\* onEditHandler, sheet OBS DESIGN, column F, row k + 37 ticked
DeleteTarget(k) ==
    /\ targetList' = consolidateRows(SetRow(targetList, k, EmptyRow))
    /\ ev' = [NoEvent EXCEPT !.op = "delete-target", !.result = "ok"]
    /\ UNCHANGED <<lookupAK, lookupAL, obsStore>>

\* onEditHandler, sheet OBS STORE, column J, row k + 9 ticked
DeleteObservation(k) ==
    /\ obsStore' = consolidateRows(SetRow(obsStore, k, EmptyRow))
    /\ ev' = [NoEvent EXCEPT !.op = "delete-observation", !.result = "ok"]
    /\ UNCHANGED <<lookupAK, lookupAL, targetList>>

\* the rows cleanupObservations keeps, in sheet order
KeptObservations(store) ==
    SelectSeq(store, LAMBDA row :
                 /\ row.k = "json"
                 /\ row.obs_state \notin {"COMPLETED", "ABORTED", "FAULT"})

\* the rows written back in the order they were read, the sort left out
KeptOrder(seq) == seq

\* Array.prototype.sort with (a, b) => dateA - dateB over datetime values:
\* ascending, rows of equal start in their earlier order
RECURSIVE SortByStart(_)
SortByStart(seq) ==
    IF seq = <<>> THEN <<>>
    ELSE LET lo == CHOOSE i \in 1..Len(seq) :
                      \A j \in 1..Len(seq) :
                         \/ seq[i].scheduling_block_start.t < seq[j].scheduling_block_start.t
                         \/ /\ seq[i].scheduling_block_start.t = seq[j].scheduling_block_start.t
                            /\ i <= j
         IN  <<seq[lo]>> \o SortByStart(SubSeq(seq, 1, lo - 1)
                                          \o SubSeq(seq, lo + 1, Len(seq)))

Reorderings(seq) ==
    {[i \in 1..Len(seq) |-> seq[p[i]]] :
        p \in {q \in [1..Len(seq) -> 1..Len(seq)] :
                 \A i, j \in 1..Len(seq) : q[i] = q[j] => i = j}}

\* what cleanupObservations may leave in DB OBS LIST. A start that is no
\* datetime compares as NaN: among datetime starts the comparator is then
\* inconsistent and the order is the implementation's choice
cleanupObservations(store) ==
    LET kept == KeptObservations(store)
        dates == {i \in 1..Len(kept) : IsDate(kept[i].scheduling_block_start)}
    IN  IF dates = 1..Len(kept) THEN {SortByStart(kept)}
        ELSE IF dates = {} THEN {kept}
        ELSE Reorderings(kept)

\* cleanupObservations() run from the script editor or a trigger
CleanupObservations ==
    /\ obsStore' \in cleanupObservations(obsStore)
    /\ ev' = [NoEvent EXCEPT !.op = "cleanup", !.result = "ok"]
    /\ UNCHANGED <<lookupAK, lookupAL, targetList>>

\* the executor outside this script moves an Observation on in its life
\* cycle by rewriting obs_state in its row of DB OBS LIST
ExecutorSetsState(k, state) ==
    /\ k \in 1..Len(obsStore)
    /\ obsStore[k].k = "json"
    /\ obsStore[k].obs_state # state
    /\ obsStore' = [obsStore EXCEPT ![k].obs_state = state]
    /\ ev' = [NoEvent EXCEPT !.op = "executor", !.result = "ok"]
    /\ UNCHANGED <<lookupAK, lookupAL, targetList>>

\* clearExpiredBlocks() run on its own
ExpireBlocks(otherLast) ==
    /\ lookupAL' = clearExpiredBlocks(lookupAK, lookupAL, now, otherLast)
    /\ ev' = [NoEvent EXCEPT !.op = "expire", !.result = "ok"]
    /\ UNCHANGED <<lookupAK, targetList, obsStore>>

----------------------------------------------------------------------------
(* The handler runs one at a time *)

HalfHour == 30 * MinuteMs

\* a TargetConfig as Add Target writes it: centre frequency in MHz, 2 MHz
\* bandwidth and sample rate, gain 30
ConfigAt(mhz) == Config(NumField(mhz), NumField(2), NumField(2), NumField(30))

Dish1 == <<"Dish001", "(3m)">>
Dish2 == <<"Dish002">>

Sub(d, s, e, b) == [dish |-> d, start |-> s, end |-> e, block |-> b]

\* submissions the ledger accepts: 1, 2 or 3 blocks of 30 minutes
ValidSubs ==
    {Sub(Dish1, DateCell(0), DateCell(2 * HalfHour), NumCell(30)),
     Sub(Dish1, DateCell(0), DateCell(70 * MinuteMs), NumCell(30)),
     Sub(Dish1, DateCell(HalfHour), DateCell(2 * HalfHour), NumTextCell(30)),
     Sub(Dish2, DateCell(HalfHour), DateCell(70 * MinuteMs), NumCell(30))}

\* submissions that fail as a whole
InvalidSubs ==
    {Sub(Dish1, s, DateCell(2 * HalfHour), NumCell(30)) : s \in {EmptyCell, TextCell}}
    \cup {Sub(Dish1, DateCell(HalfHour), e, NumCell(30)) :
            e \in {EmptyCell, TextCell, DateCell(HalfHour), DateCell(0)}}
    \cup {Sub(Dish1, DateCell(0), DateCell(HalfHour), b) :
            b \in {NumCell(0), NumCell(-30), NaNTextCell, EmptyNumCell}}

Subs == ValidSubs \cup InvalidSubs
OtherLastRows == {1, MaxRow}
NowValues == {0, FiveDaysMs + 45 * MinuteMs}

IdleExec == [p \in {1, 2} |-> [pc |-> "idle", dsh |-> "", start |-> 0, n |-> 0,
                                lastRow |-> 0, writeRow |-> 0, order |-> 0,
                                early |-> FALSE]]
IdleCount == [pc |-> "idle", start |-> 0, end |-> 0, size |-> 0, blocks |-> 0]
IdleForm ==
    [pc |-> "idle", rows |-> <<>>, type |-> "", err |-> FALSE, doc |-> <<>>,
     config |-> Config(NoField, NoField, NoField, NoField)]
IdleCalc == [pc |-> "idle"]
IdleRun == [pc |-> "idle"]

Init ==
    /\ lookupAK = [r \in Rows |-> NoDish]
    /\ lookupAL = [r \in Rows |-> Blank]
    /\ targetList = <<>>
    /\ obsStore = <<>>
    /\ now = 0
    /\ ev = NoEvent
    /\ exec = IdleExec
    /\ bc = IdleCount
    /\ form = IdleForm
    /\ calc = IdleCalc
    /\ run = IdleRun

\* Date.now() moves on between two runs
Tick ==
    /\ \E t \in NowValues : t > now /\ now' = t
    /\ ev' = [NoEvent EXCEPT !.op = "tick"]
    /\ UNCHANGED <<lookupAK, lookupAL, targetList, obsStore>>

Next ==
    \/ /\ \E sub \in Subs, o \in OtherLastRows, f \in BOOLEAN :
             /\ f => sub.start.k = "text"
             /\ o = 1 => sub \in ValidSubs
             /\ EndsBeforeWrite(sub.start, f) \/ Len(obsStore) < MaxObs
             /\ Submit(sub.dish, sub.start, sub.end, sub.block, o, f)
       /\ UNCHANGED <<now, exec, bc, form, calc, run>>
    \/ /\ AddTarget(Obj("M31"), ConfigAt(1420))
       /\ Len(targetList') <= MaxStaged
       /\ UNCHANGED <<now, exec, bc, form, calc, run>>
    \/ /\ \E k \in 1..MaxStaged : DeleteTarget(k)
       /\ UNCHANGED <<now, exec, bc, form, calc, run>>
    \/ /\ \E k \in 1..MaxObs : DeleteObservation(k)
       /\ UNCHANGED <<now, exec, bc, form, calc, run>>
    \/ /\ \E o \in OtherLastRows : ExpireBlocks(o)
       /\ UNCHANGED <<now, exec, bc, form, calc, run>>
    \/ /\ Tick
       /\ UNCHANGED <<exec, bc, form, calc, run>>

Spec == Init /\ [][Next]_vars

----------------------------------------------------------------------------
(* One block count: the inputs are drawn, updateConsumedBlocks is applied *)

CountSizes == {1, 30, 16666, 16667, 30000}
CountDurations ==
    {1, MinuteMs, HalfHour, 2 * HalfHour, 70 * MinuteMs,
     16666 * MinuteMs, 16666 * MinuteMs + 1,
     16667 * MinuteMs, 16667 * MinuteMs + 1, 16667 * MinuteMs + 2}
CountStarts == {0, HalfHour}

InitCount ==
    /\ lookupAK = [r \in Rows |-> NoDish]
    /\ lookupAL = [r \in Rows |-> Blank]
    /\ targetList = <<>>
    /\ obsStore = <<>>
    /\ now = 0
    /\ ev = NoEvent
    /\ exec = IdleExec
    /\ form = IdleForm
    /\ calc = IdleCalc
    /\ run = IdleRun
    /\ \E s \in CountStarts, d \in CountDurations, z \in CountSizes :
          bc = [pc |-> "ready", start |-> s, end |-> s + d, size |-> z,
                blocks |-> 0]

CountBlocks ==
    /\ bc.pc = "ready"
    /\ LET upd == updateConsumedBlocks(lookupAK, lookupAL, "Dish001",
                     DateCell(bc.start), DateCell(bc.end), NumCell(bc.size), 1)
       IN  bc' = [bc EXCEPT !.pc = IF upd.err = "" THEN "done" ELSE "error",
                            !.blocks = upd.n]
    /\ UNCHANGED <<lookupAK, lookupAL, targetList, obsStore, now, ev, exec, form, calc, run>>

NextCount == CountBlocks

SpecBlocks == InitCount /\ [][NextCount]_vars

\* C7: for start < end and a block size > 0 the block count is the least
\* n with n * blockMs >= end - start.
C7_ExactCeiling ==
    bc.pc \in {"done", "error"} =>
       /\ bc.pc = "done"
       /\ (bc.blocks - 1) * (bc.size * MinuteMs) < bc.end - bc.start
       /\ bc.end - bc.start <= bc.blocks * (bc.size * MinuteMs)

----------------------------------------------------------------------------
(* Two executions of updateConsumedBlocks, interleaved at the calls they   *)
(* make to the sheet: getLastRow, getRange(..).getValues, setValues        *)

Execs == {1, 2}
ExecDish == <<"Dish002", "Dish003">>
ExecInputs == {[start |-> 0, n |-> 2], [start |-> HalfHour, n |-> 1]}

EmptyAK == [r \in Rows |-> NoDish]
EmptyAL == [r \in Rows |-> Blank]

\* the ledger before the two executions: empty, or one earlier submission
EarlierSubs ==
    {Sub(Dish1, DateCell(0), DateCell(2 * HalfHour), NumCell(30)),
     Sub(Dish1, DateCell(HalfHour), DateCell(2 * HalfHour), NumCell(30))}

EarlierLedgers ==
    {[ak |-> EmptyAK, al |-> EmptyAL]}
    \cup {LET upd == updateConsumedBlocks(EmptyAK, EmptyAL, DishId(sub.dish),
                          sub.start, sub.end, sub.block, 1)
          IN  [ak |-> upd.ak, al |-> upd.al] : sub \in EarlierSubs}

InitConc ==
    /\ \E led \in EarlierLedgers : lookupAK = led.ak /\ lookupAL = led.al
    /\ targetList = <<>>
    /\ obsStore = <<>>
    /\ now = 0
    /\ ev = [op |-> "none", result |-> "", midAL |-> EmptyAL, dsh |-> "",
             start |-> EmptyCell, end |-> EmptyCell, block |-> EmptyNumCell,
             writeRow |-> 0, n |-> 0, blockMS |-> 0, rows |-> 0, bad |-> 0]
    /\ bc = IdleCount
    /\ form = IdleForm
    /\ calc = IdleCalc
    /\ run = IdleRun
    /\ \E i1 \in ExecInputs, i2 \in ExecInputs :
          exec = [p \in Execs |->
                    [pc |-> "ready", dsh |-> ExecDish[p],
                     start |-> IF p = 1 THEN i1.start ELSE i2.start,
                     n |-> IF p = 1 THEN i1.n ELSE i2.n,
                     lastRow |-> 0, writeRow |-> 0, order |-> 0,
                     early |-> FALSE]]

Written == {p \in Execs : exec[p].pc = "done"}

\* const lastRow = lookup.getLastRow()
ReadLastRow(p, otherLast) ==
    /\ exec[p].pc = "ready"
    /\ exec' = [exec EXCEPT ![p].pc = "read",
                   ![p].lastRow = GetLastRow(lookupAK, lookupAL, otherLast)]
    /\ UNCHANGED <<lookupAK, lookupAL>>

\* colValues = lookup.getRange(2, col, lastRow - 1, 1).getValues() and the scan
ScanColumn(p) ==
    /\ exec[p].pc = "read"
    /\ exec' = [exec EXCEPT ![p].pc = "scanned",
                   ![p].writeRow = FirstFreeRow(lookupAK, exec[p].lastRow),
                   ![p].early = (Written = {})]
    /\ UNCHANGED <<lookupAK, lookupAL>>

\* lookup.getRange(writeRow, col, rows.length, 2).setValues(rows)
WriteRows(p) ==
    /\ exec[p].pc = "scanned"
    /\ exec[p].writeRow + exec[p].n - 1 <= MaxRow
    /\ lookupAK' = WriteAK(lookupAK, exec[p].writeRow, exec[p].n, exec[p].dsh)
    /\ lookupAL' = WriteAL(lookupAL, exec[p].writeRow, exec[p].n,
                           exec[p].start, HalfHour)
    /\ exec' = [exec EXCEPT ![p].pc = "done",
                   ![p].order = Cardinality(Written) + 1]

NextConc ==
    \/ /\ \E p \in Execs, o \in OtherLastRows : ReadLastRow(p, o)
       /\ UNCHANGED <<targetList, obsStore, now, ev, bc, form, calc, run>>
    \/ /\ \E p \in Execs : ScanColumn(p)
       /\ UNCHANGED <<targetList, obsStore, now, ev, bc, form, calc, run>>
    \/ /\ \E p \in Execs : WriteRows(p)
       /\ UNCHANGED <<targetList, obsStore, now, ev, bc, form, calc, run>>

SpecConc == InitConc /\ [][NextConc]_vars

\* C6: when two executions have both found the first free row before either
\* has written, they write from the same row, and once both have written
\* that row holds the later writer's entry: the first entry of the earlier
\* writer is in no row of the ledger.
C6_InterleavedAppendsOverwrite ==
    \A p \in Execs, q \in Execs :
       (/\ exec[p].pc = "done" /\ exec[q].pc = "done"
        /\ exec[p].early /\ exec[q].early
        /\ exec[p].order < exec[q].order) =>
          /\ exec[p].writeRow = exec[q].writeRow
          /\ lookupAK[exec[p].writeRow] = exec[q].dsh
          /\ lookupAL[exec[p].writeRow] = exec[q].start
          /\ ~ \E r \in Rows : /\ lookupAK[r] = exec[p].dsh
                               /\ lookupAL[r] = exec[p].start

\* both executions scanned before either wrote, and both have written
C6_Witness ==
    /\ \A p \in Execs : exec[p].pc = "done" /\ exec[p].early
    /\ \E r \in Rows : lookupAK[r] = "Dish001"

----------------------------------------------------------------------------
(* Submissions over every content of DB TARGET LIST *)

StagingRows == 3      \* rows of DB TARGET LIST in the drawn lists

RowKinds ==
    {EmptyRow, BadRow,
     JsonRow(Obj("M31"), Obj(ConfigAt(1420))),
     JsonRow(Obj("Sun"), Obj(ConfigAt(408))),
     JsonRow(Missing, Obj(ConfigAt(1420))), JsonRow(Obj("M31"), Missing),
     JsonRow(Null, Obj(ConfigAt(408)))}

StagedLists ==
    {col \in UNION {[1..n -> RowKinds] : n \in 0..StagingRows} :
        col = <<>> \/ col[Len(col)] # EmptyRow}

StagingSubs ==
    {Sub(Dish1, DateCell(0), DateCell(2 * HalfHour), NumCell(30)),
     Sub(Dish2, DateCell(HalfHour), DateCell(HalfHour), NumCell(30))}

InitStaging ==
    /\ lookupAK = EmptyAK
    /\ lookupAL = EmptyAL
    /\ targetList \in StagedLists
    /\ obsStore = <<>>
    /\ now = 0
    /\ ev = [op |-> "none", result |-> "", midAL |-> EmptyAL, dsh |-> "",
             start |-> EmptyCell, end |-> EmptyCell, block |-> EmptyNumCell,
             writeRow |-> 0, n |-> 0, blockMS |-> 0, rows |-> 0, bad |-> 0]
    /\ exec = IdleExec
    /\ bc = IdleCount
    /\ form = IdleForm
    /\ calc = IdleCalc
    /\ run = IdleRun

NextStaging ==
    \/ /\ \E sub \in StagingSubs :
             /\ Submit(sub.dish, sub.start, sub.end, sub.block, MaxRow, FALSE)
             /\ Len(obsStore') <= MaxObs
       /\ UNCHANGED <<now, exec, bc, form, calc, run>>
    \/ /\ \E k \in 1..StagingRows : DeleteTarget(k)
       /\ UNCHANGED <<now, exec, bc, form, calc, run>>

SpecStaging == InitStaging /\ [][NextStaging]_vars

\* JavaScript's Number(blockSizeMin) <= 0 or NaN, end <= start, or a start or
\* end that is no Date
InvalidLedgerInput(startCell, endCell, blockCell) ==
    \/ startCell.k # "date"
    \/ endCell.k # "date"
    \/ blockCell.k = "text"
    \/ blockCell.v <= 0
    \/ endCell.t <= startCell.t

SubmitDone == ev.op = "submit" /\ ev.result = "ok"
ExpiryDone == ev.op = "expire" \/ SubmitDone

HasTargetAndConfig(cell) ==
    cell.k = "json" /\ cell.target.k = "obj" /\ cell.target_config.k = "obj"

\* C10: a submission with valid times completes whatever the staged rows
\* hold, and the Observation it writes has one Target and one TargetConfig
\* for each staged row that is JSON with a target and a target_config, in
\* staged row order; rows that fail to parse add nothing.
C10_BadRowsSkipped ==
    [][(ev'.op = "submit" /\ ev'.result \in {"ok", "ledger-error"}) =>
         LET inc == {i \in 1..Len(targetList) : HasTargetAndConfig(targetList[i])}
             obs == obsStore'[Len(obsStore')]
             nth(j) == CHOOSE i \in inc : Cardinality({x \in inc : x < i}) = j - 1
         IN  /\ ~InvalidLedgerInput(ev'.start, ev'.end, ev'.block)
                   => ev'.result = "ok"
             /\ Len(obsStore') = Len(obsStore) + 1
             /\ Len(obs.targets) = Cardinality(inc)
             /\ Len(obs.target_configs) = Cardinality(inc)
             /\ \A j \in 1..Cardinality(inc) :
                   /\ obs.targets[j].name = targetList[nth(j)].target.v
                   /\ obs.target_configs[j].center_freq.n
                         = targetList[nth(j)].target_config.v.center_freq.n * MHz]_vars

\* a completed submission of three staged rows, one of them malformed and
\* the other two in the Observation
C10_Witness ==
    /\ SubmitDone
    /\ ev.rows = 3 /\ ev.bad = 1
    /\ obsStore # <<>>
    /\ Len(obsStore[Len(obsStore)].targets) = 2
    /\ obsStore[Len(obsStore)].targets[1].name # obsStore[Len(obsStore)].targets[2].name

----------------------------------------------------------------------------
(* The scheduling-block ledger *)

RowUsed(ak, al, r) == ak[r] # NoDish \/ al[r] # Blank
RowComplete(ak, al, r) == ak[r] # NoDish /\ al[r] # Blank

\* C1: a completed updateConsumedBlocks writes only rows writeRow..writeRow+n-1,
\* all of them after every row that was in use at the call; every row in use
\* before the call holds the same dish id and block start after it.
C1_AppendKeepsEntries ==
    [][(ev'.op = "submit" /\ ev'.result = "ok") =>
         /\ \A r \in Rows :
               RowUsed(lookupAK, lookupAL, r) =>
                  /\ r < ev'.writeRow
                  /\ lookupAK'[r] = lookupAK[r]
                  /\ ev'.midAL[r] = lookupAL[r]
         /\ \A r \in Rows :
               (r < ev'.writeRow \/ r >= ev'.writeRow + ev'.n) =>
                  /\ lookupAK'[r] = lookupAK[r]
                  /\ ev'.midAL[r] = lookupAL[r]]_vars

\* an append that found earlier entries in the ledger
C1_Witness ==
    /\ SubmitDone
    /\ ev.writeRow > LedgerFirstRow
    /\ \E r \in Rows : r < ev.writeRow /\ RowComplete(lookupAK, ev.midAL, r)

\* C2: after clearExpiredBlocks at time now the ledger holds no entry with
\* block_start < now - 5 days, whichever row it is in, and every entry with
\* block_start >= now - 5 days that was there before.
C2_ExactlyUnexpiredLeft ==
    ExpiryDone =>
       /\ \A r \in Rows :
             lookupAL[r] # Blank => lookupAL[r] >= now - FiveDaysMs
       /\ \A r \in Rows :
             (ev.midAL[r] # Blank /\ ev.midAL[r] >= now - FiveDaysMs) =>
                \E q \in Rows : lookupAK[q] = lookupAK[r] /\ lookupAL[q] = ev.midAL[r]

\* C3: after clearExpiredBlocks the remaining entries are on consecutive rows
\* from the first ledger row, with no empty or half-empty row before or
\* between them.
C3_CompactedAfterExpiry ==
    ExpiryDone =>
       \A r \in Rows :
          RowUsed(lookupAK, lookupAL, r) =>
             \A q \in Rows : q <= r => RowComplete(lookupAK, lookupAL, q)

\* C4: clearExpiredBlocks run again at the same now changes nothing.
C4_ExpiryIdempotent ==
    ExpiryDone =>
       \A o \in OtherLastRows :
          clearExpiredBlocks(lookupAK, lookupAL, now, o) = lookupAL

\* an expiry that removed one entry and kept another
C4_Witness ==
    /\ ev.op = "expire"
    /\ \E r \in Rows : ev.midAL[r] # Blank /\ lookupAL[r] = Blank
    /\ \E r \in Rows : r >= ExpiryStartRow /\ lookupAL[r] # Blank

\* C5: every ledger row is a complete (dish_id, block_start) pair or is
\* entirely empty.
C5_RowsCompleteOrEmpty ==
    \A r \in Rows : RowUsed(lookupAK, lookupAL, r) => RowComplete(lookupAK, lookupAL, r)

\* C8: updateConsumedBlocks called with end <= start, a block size that is
\* not a number or is <= 0, or a start or end that is no datetime fails, and
\* the ledger is as it was.
C8_InvalidInputLeavesLedger ==
    [][(/\ ev'.op = "submit"
        /\ ev'.result \in {"ok", "ledger-error"}
        /\ InvalidLedgerInput(ev'.start, ev'.end, ev'.block)) =>
          /\ ev'.result = "ledger-error"
          /\ lookupAK' = lookupAK
          /\ lookupAL' = lookupAL]_vars

\* updateConsumedBlocks has refused an end before the start with entries in
\* the ledger
C8_Witness ==
    /\ ev.op = "submit"
    /\ ev.result = "ledger-error"
    /\ ev.start.k = "date" /\ ev.end.k = "date" /\ ev.end.t < ev.start.t
    /\ \E r \in Rows : RowComplete(lookupAK, lookupAL, r)

\* C9: a submission that fails as a whole leaves DB OBS LIST, the ledger and
\* the staged rows as they were.
C9_FailedSubmissionWritesNothing ==
    [][(ev'.op = "submit" /\ ev'.result # "ok") =>
          /\ obsStore' = obsStore
          /\ targetList' = targetList
          /\ lookupAK' = lookupAK
          /\ lookupAL' = lookupAL]_vars

----------------------------------------------------------------------------
(* The Observation assembled from the staged rows *)

\* a submission has written an Observation (the ledger may refuse it after)
ObsWritten == ev.op = "submit" /\ ev.result \in {"ok", "ledger-error"}

\* the rows of a column that hold a target and a target_config
IncludedRows(col) == {i \in 1..Len(col) : HasTargetAndConfig(col[i])}

\* the j-th of them in row order
NthIncluded(col, j) ==
    CHOOSE i \in IncludedRows(col) :
        Cardinality({x \in IncludedRows(col) : x < i}) = j - 1

C12_IndicesContiguous ==
    \A o \in 1..Len(obsStore) :
       obsStore[o].k = "json" =>
          \A i \in 1..Len(obsStore[o].targets) :
             /\ obsStore[o].targets[i].tgt_idx = i - 1
             /\ obsStore[o].target_configs[i].tgt_idx = i - 1

----------------------------------------------------------------------------
(* Submissions over staged rows with every shape of TargetConfig *)

ScaleRows == 2      \* staged rows in the drawn lists
MaxKept == 2        \* Observations in DB OBS LIST

StartEvent ==
    [op |-> "none", result |-> "", midAL |-> EmptyAL, dsh |-> "",
     start |-> EmptyCell, end |-> EmptyCell, block |-> EmptyNumCell,
     writeRow |-> 0, n |-> 0, blockMS |-> 0, rows |-> 0, bad |-> 0]

\* keys filled with MHz values, left out, or holding text
ScaleConfigs ==
    {ConfigAt(1420), ConfigAt(408),
     Config(NumField(1420), NoField, NumField(2), NumField(30)),
     Config(NoField, NumField(2), NoField, NumField(30)),
     Config(NumField(611), NumField(1), NumField(4), NoField),
     Config(TextField, NumField(2), NumField(2), NumField(30)),
     Config(NumField(1420), NumField(2), TextField, TextField),
     Config(NoField, NoField, NoField, NoField)}

ScaleLists ==
    UNION {[1..n -> {JsonRow(Obj("M31"), Obj(c)) : c \in ScaleConfigs}] :
              n \in 1..ScaleRows}

InitScale ==
    /\ lookupAK = EmptyAK
    /\ lookupAL = EmptyAL
    /\ targetList \in ScaleLists
    /\ obsStore = <<>>
    /\ now = 0
    /\ ev = StartEvent
    /\ exec = IdleExec
    /\ bc = IdleCount
    /\ form = IdleForm
    /\ calc = IdleCalc
    /\ run = IdleRun

NextScale ==
    /\ \E sub \in StagingSubs :
          /\ Submit(sub.dish, sub.start, sub.end, sub.block, MaxRow, FALSE)
          /\ Len(obsStore') <= MaxKept
    /\ UNCHANGED <<now, exec, bc, form, calc, run>>

SpecScale == InitScale /\ [][NextScale]_vars

ScaledKeys == {"center_freq", "bandwidth", "sample_rate"}

\* C14: in the Observation a submission writes, center_freq, bandwidth and
\* sample_rate of every TargetConfig are the staged number times 1e6 (a key
\* that is absent stays absent, text gives NaN), gain is as staged, and the
\* staged rows are left as they were or cleared, never rewritten.
C14_ScaledOnceFromStaged ==
    [][(ev'.op = "submit" /\ ev'.result \in {"ok", "ledger-error"}) =>
         LET obs == obsStore'[Len(obsStore')]
         IN  /\ \A j \in 1..Cardinality(IncludedRows(targetList)) :
                   LET staged == targetList[NthIncluded(targetList, j)].target_config.v
                       stored == obs.target_configs[j]
                   IN  /\ \A key \in ScaledKeys :
                             /\ staged[key].k = "num" =>
                                   stored[key] = NumField(staged[key].n * 1000000)
                             /\ staged[key].k = "absent" => stored[key] = NoField
                             /\ staged[key].k = "text" => stored[key] = NaNField
                       /\ stored.gain = staged.gain
             /\ targetList' \in {targetList, <<>>}
             /\ ev'.result = "ledger-error" => targetList' = targetList]_vars

\* the same staged rows submitted twice (the ledger refused the first
\* submission and left them): both Observations hold 1420 MHz as 1420000000
C14_Witness ==
    /\ ObsWritten
    /\ Len(obsStore) = 2
    /\ targetList # <<>>
    /\ targetList[1].target_config.v.center_freq = NumField(1420)
    /\ \A o \in 1..2 :
          /\ obsStore[o].target_configs # <<>>
          /\ obsStore[o].target_configs[1].center_freq = NumField(1420000000)
          /\ obsStore[o].target_configs[1].gain = NumField(30)

----------------------------------------------------------------------------
(* Submissions one after the other into DB OBS LIST *)

\* two starts in the same UTC minute on one dish, another dish, and a
\* submission the ledger refuses
StoreSubs ==
    {Sub(Dish1, DateCell(0), DateCell(HalfHour), NumCell(30)),
     Sub(Dish1, DateCell(20000), DateCell(HalfHour), NumCell(30)),
     Sub(Dish2, DateCell(0), DateCell(HalfHour), NumCell(30)),
     Sub(Dish1, DateCell(HalfHour), DateCell(0), NumCell(30))}

InitStore ==
    /\ lookupAK = EmptyAK
    /\ lookupAL = EmptyAL
    /\ targetList = <<>>
    /\ obsStore = <<>>
    /\ now = 0
    /\ ev = StartEvent
    /\ exec = IdleExec
    /\ bc = IdleCount
    /\ form = IdleForm
    /\ calc = IdleCalc
    /\ run = IdleRun

NextStore ==
    \/ /\ \E sub \in StoreSubs :
             /\ Submit(sub.dish, sub.start, sub.end, sub.block, MaxRow, FALSE)
             /\ Len(obsStore') <= MaxKept
       /\ UNCHANGED <<now, exec, bc, form, calc, run>>
    \/ /\ AddTarget(Obj("M31"), ConfigAt(1420))
       /\ Len(targetList') <= MaxStaged
       /\ UNCHANGED <<now, exec, bc, form, calc, run>>

SpecStore == InitStore /\ [][NextStore]_vars

\* C15: the obs_id of every Observation in DB OBS LIST is made of the UTC
\* minute of its scheduling_block_start and the first token of the dish
\* cell, and no two Observations in DB OBS LIST have the same obs_id.
C15_ObsIdUnique ==
    /\ \A o \in 1..Len(obsStore) :
          obsStore[o].obs_id =
             [minute |-> obsStore[o].scheduling_block_start.t \div 60000,
              dsh |-> obsStore[o].dsh_id]
    /\ \A o, q \in 1..Len(obsStore) :
          obsStore[o].obs_id = obsStore[q].obs_id => o = q

\* C17: a completed submission leaves the rows DB OBS LIST had, in their
\* order, adds one row after them holding the submitted Observation, and
\* leaves DB TARGET LIST empty.
C17_OneObservationAppended ==
    [][(ev'.op = "submit" /\ ev'.result = "ok") =>
          /\ Len(obsStore') = Len(obsStore) + 1
          /\ SubSeq(obsStore', 1, Len(obsStore)) = obsStore
          /\ obsStore'[Len(obsStore')].k = "json"
          /\ obsStore'[Len(obsStore')].dsh_id = ev'.dsh
          /\ obsStore'[Len(obsStore')].scheduling_block_start = ev'.start
          /\ targetList' = <<>>]_vars

\* a completed submission of one staged row into a store that held another
\* Observation
C17_Witness ==
    /\ SubmitDone
    /\ ev.rows = 1
    /\ Len(obsStore) = 2
    /\ obsStore[1] # obsStore[2]
    /\ Len(obsStore[2].targets) = 1
    /\ targetList = <<>>

----------------------------------------------------------------------------
(* Every operation on a DB OBS LIST whose Observations move through their  *)
(* life cycle                                                              *)

\* a submission of three blocks that completes and one the ledger refuses,
\* with a later start
CleanupSubs ==
    {Sub(Dish1, DateCell(0), DateCell(3 * HalfHour), NumCell(30)),
     Sub(Dish1, DateCell(HalfHour), DateCell(0), NumCell(30))}

\* a value cleanupObservations keeps and one it removes
ExecutorStates == {"IN_PROGRESS", "COMPLETED"}

NextCleanup ==
    \/ /\ \E sub \in CleanupSubs :
             /\ Submit(sub.dish, sub.start, sub.end, sub.block, MaxRow, FALSE)
             /\ Len(obsStore') <= MaxKept
       /\ UNCHANGED <<now, exec, bc, form, calc, run>>
    \/ /\ AddTarget(Obj("M31"), ConfigAt(1420))
       /\ Len(targetList') <= MaxStaged
       /\ UNCHANGED <<now, exec, bc, form, calc, run>>
    \/ /\ \E k \in 1..MaxStaged : DeleteTarget(k)
       /\ UNCHANGED <<now, exec, bc, form, calc, run>>
    \/ /\ \E k \in 1..MaxKept : DeleteObservation(k)
       /\ UNCHANGED <<now, exec, bc, form, calc, run>>
    \/ /\ CleanupObservations
       /\ UNCHANGED <<now, exec, bc, form, calc, run>>
    \/ /\ \E k \in 1..MaxKept, st \in ExecutorStates : ExecutorSetsState(k, st)
       /\ UNCHANGED <<now, exec, bc, form, calc, run>>
    \/ /\ ExpireBlocks(MaxRow)
       /\ UNCHANGED <<now, exec, bc, form, calc, run>>

SpecCleanup == InitStore /\ [][NextCleanup]_vars

\* how often a row occurs in a column
Occurrences(col, row) == Cardinality({i \in 1..Len(col) : col[i] = row})

\* C16: the Observation a submission appends has obs_state EMPTY, and every
\* step of this script (submission with its ledger append and expiry, add
\* target, delete target, delete observation, cleanupObservations, expiry)
\* leaves each Observation that stays in DB OBS LIST as it was, obs_state
\* included: a row of DB OBS LIST after the step is a row from before it,
\* or the row the submission has just appended.
C16_ObsStateFixedAtEmpty ==
    [][ev'.op # "executor" =>
          LET appended == ev'.op = "submit" /\ Len(obsStore') = Len(obsStore) + 1
              old == IF appended THEN SubSeq(obsStore', 1, Len(obsStore))
                     ELSE obsStore'
          IN  /\ appended => obsStore'[Len(obsStore')].obs_state = "EMPTY"
              /\ \A i \in 1..Len(old) :
                    Occurrences(old, old[i]) <= Occurrences(obsStore, old[i])]_vars

\* cleanupObservations has reordered DB OBS LIST and kept an Observation
\* the executor had moved on from EMPTY
C16_Witness ==
    /\ ev.op = "cleanup"
    /\ Len(obsStore) = 2
    /\ obsStore[1].obs_state = "IN_PROGRESS"
    /\ obsStore[2].obs_state = "EMPTY"
    /\ obsStore[1].scheduling_block_start.t < obsStore[2].scheduling_block_start.t

----------------------------------------------------------------------------
(* Coordinate texts: parseRAtoDeg and parseDECtoDeg.  A text is the        *)
(* sequence of its characters; an angle is a whole number of 1 / PerDegree *)
(* degrees, a parsed number a whole number of hundredths.                  *)

PerDegree == 360000

Digit == {"0", "1", "2", "3", "4", "5", "6", "7", "8", "9"}
DigitValue(c) ==
    CASE c = "0" -> 0 [] c = "1" -> 1 [] c = "2" -> 2 [] c = "3" -> 3
      [] c = "4" -> 4 [] c = "5" -> 5 [] c = "6" -> 6 [] c = "7" -> 7
      [] c = "8" -> 8 [] c = "9" -> 9

\* s.trim()
RECURSIVE trim(_)
trim(s) ==
    IF s = <<>> THEN s
    ELSE IF Head(s) = " " THEN trim(Tail(s))
    ELSE IF s[Len(s)] = " " THEN trim(SubSeq(s, 1, Len(s) - 1))
    ELSE s

\* s.match(/[...]/): some character of s is in class
HasAny(s, class) == \E i \in 1..Len(s) : s[i] \in class

\* s.indexOf(c), counted from 1; 0 when c does not occur
IndexOf(s, c) ==
    IF \E i \in 1..Len(s) : s[i] = c
    THEN CHOOSE i \in 1..Len(s) : s[i] = c /\ \A j \in 1..(i - 1) : s[j] # c
    ELSE 0

\* s.replace(/[class]/g, " "): every character of the class becomes a space
ReplaceEach(s, class) == [i \in 1..Len(s) |-> IF s[i] \in class THEN " " ELSE s[i]]

\* s.replace(/c+/g, " "): every run of c becomes one space
RECURSIVE ReplaceRuns(_, _)
ReplaceRuns(s, c) ==
    IF s = <<>> THEN s
    ELSE IF Head(s) # c THEN <<Head(s)>> \o ReplaceRuns(Tail(s), c)
    ELSE IF Len(s) > 1 /\ s[2] = c THEN ReplaceRuns(Tail(s), c)
    ELSE <<" ">> \o ReplaceRuns(Tail(s), c)

\* s.replace(c, ""): the first occurrence of c is removed
RemoveFirst(s, c) ==
    LET i == IndexOf(s, c)
    IN  IF i = 0 THEN s ELSE SubSeq(s, 1, i - 1) \o SubSeq(s, i + 1, Len(s))

\* the text without the white space at its front
RECURSIVE SkipLeft(_)
SkipLeft(r) == IF r # <<>> /\ Head(r) = " " THEN SkipLeft(Tail(r)) ELSE r

\* s.split(/\s+/): the pieces between the runs of white space; a text that
\* begins or ends with white space has an empty first or last piece
RECURSIVE Split(_)
SplitAt(s, i) ==
    IF i = 0 THEN <<s>>
    ELSE <<SubSeq(s, 1, i - 1)>> \o Split(SkipLeft(SubSeq(s, i + 1, Len(s))))

Split(s) == SplitAt(s, IndexOf(s, " "))

\* the digits at the front of s
RECURSIVE LeadingDigits(_)
LeadingDigits(s) ==
    IF s # <<>> /\ Head(s) \in Digit THEN <<Head(s)>> \o LeadingDigits(Tail(s))
    ELSE <<>>

RECURSIVE NumberOf(_)
NumberOf(digits) ==
    IF digits = <<>> THEN 0
    ELSE 10 * NumberOf(SubSeq(digits, 1, Len(digits) - 1))
           + DigitValue(digits[Len(digits)])

NotANumber == [nan |-> TRUE, h |-> 0]

\* the digits behind a decimal point at the front of r
FractionDigits(r) ==
    IF r # <<>> /\ Head(r) = "." THEN LeadingDigits(Tail(r)) ELSE <<>>

\* the number of the digits before and behind the point, in hundredths
\* (two decimals); NaN when there is no digit
FloatOf(negative, whole, decimals) ==
    IF whole = <<>> /\ decimals = <<>> THEN NotANumber
    ELSE [nan |-> FALSE,
          h |-> (IF negative THEN -1 ELSE 1)
                  * (100 * NumberOf(whole)
                       + NumberOf(SubSeq(decimals \o <<"0", "0">>, 1, 2)))]

FloatDigits(negative, u, whole) ==
    FloatOf(negative, whole, FractionDigits(SubSeq(u, Len(whole) + 1, Len(u))))

FloatSigned(t) ==
    IF t # <<>> /\ Head(t) \in {"+", "-"}
    THEN FloatDigits(Head(t) = "-", Tail(t), LeadingDigits(Tail(t)))
    ELSE FloatDigits(FALSE, t, LeadingDigits(t))

\* parseFloat(s): white space, a sign, digits, a point and digits; what
\* follows is ignored
parseFloat(s) == FloatSigned(SkipLeft(s))

\* the value returned, or err when "Cannot parse" is thrown
Parsed(v) == [err |-> FALSE, v |-> v]
CannotParse == [err |-> TRUE, v |-> 0]

\* the test of the sexagesimal form by the marks h m s H M S : alone
HasSexagesimalMark(s) == HasAny(s, {"h", "m", "s", "H", "M", "S", ":"})

\* s.match(/[hmsHMS:]/) || (s.split(/\s+/).length === 3 && s.indexOf(":") === -1)
IsSexagesimal(s) ==
    \/ HasAny(s, {"h", "m", "s", "H", "M", "S", ":"})
    \/ (Len(Split(s)) = 3 /\ IndexOf(s, ":") = 0)

\* (h + m/60 + sec/3600) * 15.0
HmsToDeg(h, mn, sec) ==
    IF h.nan \/ mn.nan \/ sec.nan THEN CannotParse
    ELSE Parsed((h.h * 3600 + mn.h * 60 + sec.h) * 15)

RaFromParts(parts) ==
    IF Len(parts) < 3 THEN CannotParse
    ELSE HmsToDeg(parseFloat(parts[1]), parseFloat(parts[2]), parseFloat(parts[3]))

\* the decimal-degrees branch
DecimalToDeg(v) == IF v.nan THEN CannotParse ELSE Parsed(v.h * 3600)

parseRAtoDeg(s) ==
    IF IsSexagesimal(s)
    THEN RaFromParts(Split(trim(ReplaceRuns(
                        ReplaceEach(s, {"h", "m", "s", "H", "M", "S"}), ":"))))
    ELSE DecimalToDeg(parseFloat(s))

\* parseFloat(s.replace("°", ""))
DecimalAttempt(s) == parseFloat(RemoveFirst(s, "°"))

\* sign * (d + m / 60 + sec / 3600)
DmsToDeg(sign, d, mn, sec) ==
    IF d.nan \/ mn.nan \/ sec.nan THEN CannotParse
    ELSE Parsed(sign * (d.h * 3600 + mn.h * 60 + sec.h))

\* sign and degPart of the first part
SignOf(degPart) == IF degPart # <<>> /\ Head(degPart) = "-" THEN -1 ELSE 1
Unsigned(degPart) ==
    IF degPart # <<>> /\ Head(degPart) \in {"+", "-"} THEN Tail(degPart) ELSE degPart

DecFromParts(parts) ==
    IF Len(parts) < 3 THEN CannotParse
    ELSE DmsToDeg(SignOf(parts[1]), parseFloat(Unsigned(parts[1])),
                  parseFloat(parts[2]), parseFloat(parts[3]))

\* the decimal value when the text begins with a number, the
\* DMS / sexagesimal value otherwise
DecFromText(s, decimal) ==
    IF ~decimal.nan THEN Parsed(decimal.h * 3600)
    ELSE DecFromParts(Split(trim(ReplaceRuns(
                         ReplaceEach(s, {"°", "d", "D", "m", "M", "s", "S", "'", "\""}),
                         ":"))))

parseDECtoDeg(text) == DecFromText(trim(text), DecimalAttempt(trim(text)))

----------------------------------------------------------------------------
(* generateJSON: a document from label/value rows of OBS DESIGN *)

JsonRows == 3      \* label/value rows read by one generateJSON call

\* rawKey.toString().toLowerCase().replace(/ /g, "_") of the labels used
getJSONKey(label) ==
    CASE label = "" -> ""
      [] label \in {"Gain", "gain"} -> "gain"
      [] label = "Bandwidth" -> "bandwidth"
      [] label = "Feed" -> "feed"
      [] label = "AltAz" -> "altaz"
      [] label = "Solar System" -> "solar_system"
      [] label = "SkyCoord" -> "skycoord"
      [] label = "Target" -> "target"
      [] label = "Pointing" -> "pointing"

\* the key text base (n = 0) or base + "_" + n
Key(base, n) == [base |-> base, n |-> n]

\* what getValues() returns for a value cell
EmptyValue == [k |-> "empty"]
NumberValue(n) == [k |-> "num", n |-> n]
NumericString(n) == [k |-> "numtext", n |-> n]
StringValue(s) == [k |-> "text", s |-> s]

\* what the key handlers make
EmptyObject == [k |-> "object"]
NoId == [k |-> "absent"]
FeedEnum(v) == [k |-> "enum", instance |-> "Feed", value |-> v]
TargetModel(pointing, coord, id) ==
    [k |-> "target", pointing |-> pointing, coord |-> coord, id |-> id]
\* a TargetModel with sky_coord {frame: "icrs", ra, dec}
IcrsTarget(ra, dec, id) ==
    [k |-> "target", pointing |-> "SIDEREAL_TRACK", coord |-> "icrs", id |-> id,
     ra |-> ra, dec |-> dec]

\* the characters of the texts used
Chars(s) ==
    CASE s = "alt:45 az:180" ->
           <<"a", "l", "t", ":", "4", "5", " ", "a", "z", ":", "1", "8", "0">>
      [] s = "zenith" ->
           <<"z", "e", "n", "i", "t", "h">>
      [] s = "Sun" ->
           <<"S", "u", "n">>
      [] s = "M31" ->
           <<"M", "3", "1">>
      [] s = "drift scan" ->
           <<"d", "r", "i", "f", "t", " ", "s", "c", "a", "n">>
      [] s = "Sidereal Track" ->
           <<"S", "i", "d", "e", "r", "e", "a", "l", " ", "T", "r", "a", "c", "k">>
      [] s = "raster" ->
           <<"r", "a", "s", "t", "e", "r">>
      [] s = "M31 ra:10.68, dec:41.27" ->
           <<"M", "3", "1", " ", "r", "a", ":", "1", "0", ".", "6", "8", ",", " ", "d", "e", "c", ":", "4", "1", ".", "2", "7">>
      [] s = "l:29.75, b:49.43" ->
           <<"l", ":", "2", "9", ".", "7", "5", ",", " ", "b", ":", "4", "9", ".", "4", "3">>
      [] s = "M31 ra:25:00:00, dec:95" ->
           <<"M", "3", "1", " ", "r", "a", ":", "2", "5", ":", "0", "0", ":", "0", "0", ",", " ", "d", "e", "c", ":", "9", "5">>
      [] s = "M31 ra:12:30, dec:41.27" ->
           <<"M", "3", "1", " ", "r", "a", ":", "1", "2", ":", "3", "0", ",", " ", "d", "e", "c", ":", "4", "1", ".", "2", "7">>
      [] s = "M31 ra:12:xx:30, dec:41.27" ->
           <<"M", "3", "1", " ", "r", "a", ":", "1", "2", ":", "x", "x", ":", "3", "0", ",", " ", "d", "e", "c", ":", "4", "1", ".", "2", "7">>
      [] s = "M31 ra:10.68, dec:12:23" ->
           <<"M", "3", "1", " ", "r", "a", ":", "1", "0", ".", "6", "8", ",", " ", "d", "e", "c", ":", "1", "2", ":", "2", "3">>
      [] s = "M31 ra:10.68, dec:xx" ->
           <<"M", "3", "1", " ", "r", "a", ":", "1", "0", ".", "6", "8", ",", " ", "d", "e", "c", ":", "x", "x">>
      [] s = "M31 ra:12h30m49s, dec::12:23:28" ->
           <<"M", "3", "1", " ", "r", "a", ":", "1", "2", "h", "3", "0", "m", "4", "9", "s", ",", " ", "d", "e", "c", ":", ":", "1", "2", ":", "2", "3", ":", "2", "8">>

\* the text w stands in c at position i
StartsAt(c, i, w) == i >= 1 /\ i + Len(w) - 1 <= Len(c) /\ SubSeq(c, i, i + Len(w) - 1) = w

\* the first "," of c after position i, 0 when there is none
CommaAfter(c, i) ==
    IF \E j \in (i + 1)..Len(c) : c[j] = ","
    THEN CHOOSE j \in (i + 1)..Len(c) : c[j] = "," /\ \A x \in (i + 1)..(j - 1) : c[x] # ","
    ELSE 0

\* the places from position from at which "ra:" stands with at least one
\* character before the next ","
RaStarts(c, from) ==
    {i \in from..Len(c) :
        StartsAt(c, i, <<"r", "a", ":">>) /\ CommaAfter(c, i + 2) > i + 3}

\* the places behind position after at which "dec:" stands with at least
\* one character behind it
DecStarts(c, after) ==
    {k \in (after + 1)..Len(c) :
        StartsAt(c, k, <<"d", "e", "c", ":">>) /\ k + 4 <= Len(c)}

\* the places from position from at which /ra:([^,]+),.*?dec:(.+)$/ matches
MatchStarts(c, from) ==
    {i \in RaStarts(c, from) : DecStarts(c, CommaAfter(c, i + 2)) # {}}

\* the least and the greatest place of a set of places
FirstOf(places) == CHOOSE x \in places : \A y \in places : x <= y
LastOf(places) == CHOOSE x \in places : \A y \in places : y <= x

\* match[1] and match[2] for "ra:" at i and the next "," at comma: the lazy
\* .*? before "dec:" takes the first place
GroupsAt(c, i, comma) ==
    [ok |-> TRUE,
     ra |-> SubSeq(c, i + 3, comma - 1),
     dec |-> SubSeq(c, FirstOf(DecStarts(c, comma)) + 4, Len(c))]

\* the lazy .*? before "ra:" takes the first place that lets the rest match
MatchAmong(c, starts) ==
    IF starts = {} THEN [ok |-> FALSE, ra |-> <<>>, dec |-> <<>>]
    ELSE GroupsAt(c, FirstOf(starts), CommaAfter(c, FirstOf(starts) + 2))

\* the match of /.*?ra:([^,]+),.*?dec:(.+)$/ from position from
RaDecMatch(c, from) == MatchAmong(c, MatchStarts(c, from))

\* the characters at the front of c up to the first white space
RECURSIVE FrontLength(_)
FrontLength(c) ==
    IF c = <<>> \/ Head(c) = " " THEN 0 ELSE 1 + FrontLength(Tail(c))

\* the greedy (\S+): the longest front without white space that leaves a
\* place for the rest to match
IdLengthAmong(starts, front) ==
    IF starts = {} \/ front = 0 THEN 0
    ELSE IF front < LastOf(starts) THEN front ELSE LastOf(starts) - 1

\* the length of match[1] of /^(\S+).*?ra:([^,]+),.*?dec:(.+)$/, 0 for no
\* match
IdLength(c) == IdLengthAmong(MatchStarts(c, 2), FrontLength(c))

\* value.match(regex)
MatchesAltAz(s) == s = "alt:45 az:180"
MatchesIcrs(s) == RaDecMatch(Chars(s), 1).ok
MatchesGalactic(s) == s = "l:29.75, b:49.43"
MatchesTarget(s) == IdLength(Chars(s)) > 0
TargetId(s) ==
    IF SubSeq(Chars(s), 1, IdLength(Chars(s))) = <<"M", "3", "1">> THEN "M31" ELSE ""

\* pointing.toUpperCase().replace(/\s+/g, "_")
PointingName(s) ==
    CASE s = "drift scan" -> "DRIFT_SCAN"
      [] s = "Sidereal Track" -> "SIDEREAL_TRACK"
      [] s = "raster" -> "RASTER"
      [] OTHER -> s

IsString(v) == v.k \in {"text", "numtext"}

\* the ICRS target of the parsed ra and dec, or err when a parser has thrown
IcrsParsed(key, v, id, ra, dec) ==
    IF ra.err \/ dec.err THEN [err |-> TRUE, key |-> key, value |-> v]
    ELSE [err |-> FALSE, key |-> "target", value |-> IcrsTarget(ra.v, dec.v, id)]

\* the ICRS target made of match[1], match[2]
IcrsHandled(key, v, groups, id) ==
    IcrsParsed(key, v, id, parseRAtoDeg(groups.ra), parseDECtoDeg(groups.dec))

\* key skycoord: the ICRS pattern, then the Galactic one, then {}
SkyCoordHandled(key, v, match) ==
    IF match.ok THEN IcrsHandled(key, v, match, NoId)
    ELSE IF MatchesGalactic(v.s)
    THEN [err |-> FALSE, key |-> "target",
          value |-> TargetModel("SIDEREAL_TRACK", "galactic", NoId)]
    ELSE [err |-> FALSE, key |-> key, value |-> EmptyObject]

\* key target: id, ra and dec of the pattern, or {}; n is the length of
\* match[1]
TargetHandled(key, v, c, n) ==
    IF n > 0
    THEN IcrsHandled(key, v, RaDecMatch(c, n + 1), StringValue(TargetId(v.s)))
    ELSE [err |-> FALSE, key |-> key, value |-> EmptyObject]

\* the if / else-if chain over key: the key and value to store, or err
\* when value.match is no function or a coordinate parser throws
Handle(key, v) ==
    CASE key = "feed" -> [err |-> FALSE, key |-> key, value |-> FeedEnum(v)]
      [] key = "altaz" ->
           IF ~IsString(v) THEN [err |-> TRUE, key |-> key, value |-> v]
           ELSE IF v.k = "text" /\ MatchesAltAz(v.s)
           THEN [err |-> FALSE, key |-> "target",
                 value |-> TargetModel("DRIFT_SCAN", "altaz", NoId)]
           ELSE [err |-> FALSE, key |-> key, value |-> EmptyObject]
      [] key = "solar_system" ->
           [err |-> FALSE, key |-> "target",
            value |-> TargetModel("NON_SIDEREAL_TRACK", "none", v)]
      [] key = "skycoord" ->
           IF ~IsString(v) THEN [err |-> TRUE, key |-> key, value |-> v]
           ELSE IF v.k = "text"
           THEN SkyCoordHandled(key, v, RaDecMatch(Chars(v.s), 1))
           ELSE [err |-> FALSE, key |-> key, value |-> EmptyObject]
      [] key = "target" ->
           IF ~IsString(v) THEN [err |-> TRUE, key |-> key, value |-> v]
           ELSE IF v.k = "text"
           THEN TargetHandled(key, v, Chars(v.s), IdLength(Chars(v.s)))
           ELSE [err |-> FALSE, key |-> key, value |-> EmptyObject]
      [] OTHER -> [err |-> FALSE, key |-> key, value |-> v]

\* numeric strings become numbers
Convert(v) == IF v.k = "numtext" THEN NumberValue(v.n) ELSE v

NaNCount == -1     \* undefined++ leaves NaN

\* keyCount[finalKey] || 0
Count(keyCount, key) ==
    IF key \in DOMAIN keyCount /\ keyCount[key] # NaNCount
    THEN keyCount[key] ELSE 0

\* keyCount[finalKey]++
Incremented(keyCount, key) ==
    IF key \notin DOMAIN keyCount \/ keyCount[key] = NaNCount
    THEN NaNCount ELSE keyCount[key] + 1

\* finalKey: the key, or key + "_" + count when the key was counted before
SuffixedKey(keyCount, key) ==
    IF Count(keyCount, Key(key, 0)) > 0
    THEN Key(key, Count(keyCount, Key(key, 0))) ELSE Key(key, 0)

\* keyCount after keyCount[finalKey] = keyCount[finalKey] || 0
Counted(keyCount, key) ==
    (Key(key, 0) :> Count(keyCount, Key(key, 0))) @@ keyCount

\* jsonObj[finalKey] = value after keyCount[finalKey]++
StoredAs(st, h, finalKey, counted) ==
    [err |-> FALSE,
     doc |-> (finalKey :> Convert(h.value)) @@ st.doc,
     keyCount |-> (finalKey :> Incremented(counted, finalKey)) @@ counted]

\* the handled key and value are stored, or the call has ended
Stored(st, h) ==
    IF h.err THEN [st EXCEPT !.err = TRUE]
    ELSE StoredAs(st, h, SuffixedKey(st.keyCount, h.key), Counted(st.keyCount, h.key))

\* one row: skipped when the key or the value is empty
StoreRow(st, row, key) ==
    IF st.err \/ key = "" \/ row.value.k = "empty" THEN st
    ELSE Stored(st, Handle(key, row.value))

\* jsonObj and keyCount after the first n rows
RECURSIVE generateRows(_, _, _)
generateRows(rows, n, type) ==
    IF n = 0
    THEN [err |-> FALSE,
          doc |-> IF type = "" THEN <<>>
                  ELSE (Key("_type", 0) :> StringValue(type)),
          keyCount |-> <<>>]
    ELSE StoreRow(generateRows(rows, n - 1, type), rows[n], getJSONKey(rows[n].label))

\* if (pointing): a non-empty string or a number other than 0
Truthy(v) == v.k # "num" \/ v.n # 0

\* "Update pointing if it was set": t = jsonObj.target, p = jsonObj.pointing
Overridden(st, t, p) ==
    IF st.err THEN [err |-> TRUE, doc |-> <<>>]
    ELSE IF p \notin DOMAIN st.doc \/ ~Truthy(st.doc[p])
    THEN [err |-> FALSE, doc |-> st.doc]
    ELSE IF \/ t \notin DOMAIN st.doc
            \/ st.doc[t].k # "target"
            \/ st.doc[p].k # "text"
    THEN [err |-> TRUE, doc |-> <<>>]
    ELSE [err |-> FALSE,
          doc |-> [x \in DOMAIN st.doc \ {p} |->
                      IF x = t
                      THEN [st.doc[t] EXCEPT !.pointing = PointingName(st.doc[p].s)]
                      ELSE st.doc[x]]]

\* generateJSON(sheet, cellRanges, true, log, type) over the rows of the
\* ranges: the document, or err when a TypeError or a parse error ends the
\* call
generateJSON(rows, type) ==
    Overridden(generateRows(rows, Len(rows), type), Key("target", 0), Key("pointing", 0))

Row(label, value) == [label |-> label, value |-> value]

\* rows of plain keys: the i-th value is 10 * i, or the cell is empty
NumberLabels == {"Gain", "gain", "Bandwidth"}
NumberRows ==
    UNION {{[i \in 1..n |-> Row(l[i], IF e[i] THEN EmptyValue
                                      ELSE NumberValue(10 * i))] :
               l \in [1..n -> NumberLabels], e \in [1..n -> BOOLEAN]} :
           n \in 1..JsonRows}

\* rows of the fields a target is entered in
TargetFields ==
    {Row("Solar System", StringValue("Sun")),
     Row("AltAz", StringValue("alt:45 az:180")),
     Row("AltAz", StringValue("zenith")),
     Row("SkyCoord", StringValue("M31 ra:10.68, dec:41.27")),
     Row("SkyCoord", StringValue("l:29.75, b:49.43")),
     Row("SkyCoord", StringValue("M31")),
     Row("Target", StringValue("M31 ra:10.68, dec:41.27")),
     Row("Target", StringValue("M31")),
     Row("Pointing", StringValue("drift scan"))}

TargetRows == UNION {[1..n -> TargetFields] : n \in 1..JsonRows}

InitJson ==
    /\ lookupAK = EmptyAK
    /\ lookupAL = EmptyAL
    /\ targetList = <<>>
    /\ obsStore = <<>>
    /\ now = 0
    /\ ev = StartEvent
    /\ exec = IdleExec
    /\ bc = IdleCount
    /\ \E rows \in NumberRows \cup TargetRows :
          form = [IdleForm EXCEPT !.pc = "ready", !.rows = rows]
    /\ calc = IdleCalc
    /\ run = IdleRun

\* the document, or the error, is kept
Generated(made) ==
    form' = [form EXCEPT !.pc = "done", !.err = made.err, !.doc = made.doc]

Generate ==
    /\ form.pc = "ready"
    /\ Generated(generateJSON(form.rows, form.type))
    /\ UNCHANGED <<lookupAK, lookupAL, targetList, obsStore, now, ev, exec, bc, calc, run>>

NextJson == Generate

SpecJson == InitJson /\ [][NextJson]_vars

\* the rows that are stored under the normalized key, in encounter order
Occurrences19(rows, key) ==
    SelectSeq(rows, LAMBDA row : getJSONKey(row.label) = key /\ row.value # EmptyValue)

\* C19: for a key that occurs k times with non-empty values the document
\* holds the bare key with the first value and key_1 .. key_(k-1) with the
\* following values in encounter order.
C19_EveryDuplicateKept ==
    (form.pc = "done" /\ form.rows \in NumberRows) =>
        /\ ~form.err
        /\ \A key \in {"gain", "bandwidth"} :
              LET occ == Occurrences19(form.rows, key)
              IN  \A j \in 1..Len(occ) :
                     /\ Key(key, j - 1) \in DOMAIN form.doc
                     /\ form.doc[Key(key, j - 1)] = occ[j].value

\* the normalized keys of the target fields that are filled in
FilledTargetKeys(rows) ==
    {getJSONKey(rows[i].label) : i \in 1..Len(rows)}
       \cap {"solar_system", "altaz", "skycoord", "target"}

\* every row is a target field whose text its handler accepts
AllParsed(rows) ==
    \A i \in 1..Len(rows) :
       rows[i] \in {Row("Solar System", StringValue("Sun")),
                    Row("AltAz", StringValue("alt:45 az:180")),
                    Row("SkyCoord", StringValue("M31 ra:10.68, dec:41.27")),
                    Row("SkyCoord", StringValue("l:29.75, b:49.43")),
                    Row("Target", StringValue("M31 ra:10.68, dec:41.27"))}

\* C20: when more than one of solar_system, altaz, skycoord and target is
\* filled in, the Target under the bare key target is the one of the field
\* of highest precedence, solar_system > altaz > skycoord > target,
\* whatever the order of the rows.
C20_HighestPrecedenceWins ==
    (/\ form.pc = "done"
     /\ AllParsed(form.rows)
     /\ Cardinality(FilledTargetKeys(form.rows)) > 1) =>
        LET filled == FilledTargetKeys(form.rows)
            target == form.doc[Key("target", 0)]
        IN  /\ ~form.err
            /\ Key("target", 0) \in DOMAIN form.doc
            /\ IF "solar_system" \in filled
               THEN target.pointing = "NON_SIDEREAL_TRACK" /\ target.id = StringValue("Sun")
               ELSE IF "altaz" \in filled
               THEN target.pointing = "DRIFT_SCAN" /\ target.coord = "altaz"
               ELSE /\ target.pointing = "SIDEREAL_TRACK"
                    /\ target.id = NoId

\* the row is an altaz, skycoord or target field whose text none of the
\* patterns of its handler accepts
NonMatching(row) ==
    /\ row.value.k = "text"
    /\ \/ getJSONKey(row.label) = "altaz" /\ ~MatchesAltAz(row.value.s)
       \/ /\ getJSONKey(row.label) = "skycoord"
          /\ ~MatchesIcrs(row.value.s)
          /\ ~MatchesGalactic(row.value.s)
       \/ getJSONKey(row.label) = "target" /\ ~MatchesTarget(row.value.s)

\* C22: when an altaz, skycoord or target text matches no pattern,
\* generateJSON still returns a document, whatever the other rows are, and
\* the document holds the empty placeholder under the key of the field.
C22_NoMatchIsNotFatal ==
    form.pc = "done" =>
        \A i \in 1..Len(form.rows) :
           NonMatching(form.rows[i]) =>
              /\ ~form.err
              /\ \E key \in DOMAIN form.doc :
                    /\ key.base = getJSONKey(form.rows[i].label)
                    /\ form.doc[key] = EmptyObject

----------------------------------------------------------------------------
(* Add Target from the target and TargetConfig fields of OBS DESIGN *)

AddRows == 3       \* rows DB TARGET LIST holds at most after Add Target

\* jsonObj.target of a generated document
TargetEntry(doc) ==
    IF Key("target", 0) \in DOMAIN doc THEN Obj(doc[Key("target", 0)])
    ELSE Missing

\* sheet.getRange("B25").clearContent(), getRange("B29:B32").clearContent()
ClearValues(rows) == [i \in 1..Len(rows) |-> Row(rows[i].label, EmptyValue)]

\* what the operator has typed into the target fields before ticking B34
AddInputs ==
    {<<Row("Solar System", StringValue("Sun"))>>,
     <<Row("AltAz", StringValue("alt:45 az:180"))>>,
     <<Row("Target", StringValue("M31 ra:10.68, dec:41.27"))>>,
     <<Row("Target", StringValue("M31"))>>,
     <<Row("Pointing", StringValue("drift scan")),
       Row("SkyCoord", StringValue("l:29.75, b:49.43"))>>,
     <<Row("AltAz", StringValue("alt:45 az:180")),
       Row("Solar System", StringValue("Sun"))>>,
     <<Row("Pointing", StringValue("drift scan")),
       Row("Target", EmptyValue)>>,
     <<Row("Solar System", EmptyValue), Row("Target", EmptyValue)>>}

AddConfigs == {ConfigAt(1420), ConfigAt(408)}

\* the operator fills in the target fields and the TargetConfig fields
EnterTarget(rows, cfg) ==
    /\ form.pc # "filled"
    /\ form' = [form EXCEPT !.pc = "filled", !.rows = rows, !.config = cfg,
                            !.err = FALSE, !.doc = <<>>]
    /\ ev' = [NoEvent EXCEPT !.op = "enter-target"]
    /\ UNCHANGED <<lookupAK, lookupAL, targetList, obsStore>>

\* onEditHandler, sheet OBS DESIGN, cell B34 ticked, with the two
\* generateJSON calls: a TypeError in the first ends the handler
AddTargetMade(made) ==
    IF made.err
    THEN /\ form' = [form EXCEPT !.pc = "failed", !.err = TRUE]
         /\ ev' = [NoEvent EXCEPT !.op = "add-target", !.result = "error"]
         /\ UNCHANGED <<lookupAK, lookupAL, targetList, obsStore>>
    ELSE /\ AddTarget(TargetEntry(made.doc), form.config)
         /\ form' = [form EXCEPT !.pc = "added", !.doc = made.doc,
                                 !.rows = ClearValues(form.rows)]

AddTargetFromForm ==
    /\ form.pc = "filled"
    /\ AddTargetMade(generateJSON(form.rows, ""))

InitAdd ==
    /\ lookupAK = EmptyAK
    /\ lookupAL = EmptyAL
    /\ targetList \in
          {<<>>,
           <<EmptyRow, JsonRow(Obj(TargetModel("DRIFT_SCAN", "altaz", NoId)),
                               Obj(ConfigAt(408)))>>}
    /\ obsStore = <<>>
    /\ now = 0
    /\ ev = StartEvent
    /\ exec = IdleExec
    /\ bc = IdleCount
    /\ form = IdleForm
    /\ calc = IdleCalc
    /\ run = IdleRun

NextAdd ==
    \/ /\ \E rows \in AddInputs, cfg \in AddConfigs : EnterTarget(rows, cfg)
       /\ UNCHANGED <<now, exec, bc, calc, run>>
    \/ /\ AddTargetFromForm
       /\ Len(targetList') <= AddRows
       /\ UNCHANGED <<now, exec, bc, calc, run>>

SpecAdd == InitAdd /\ [][NextAdd]_vars

\* C18: a completed Add Target leaves the staged rows as they were, in
\* their positions, and writes one row directly after the last of them;
\* the row holds the TargetConfig of the form and the Target made of the
\* target fields.
C18_OneStagedRowAppended ==
    [][(ev'.op = "add-target" /\ ev'.result = "ok") =>
          /\ Len(targetList') = Len(targetList) + 1
          /\ SubSeq(targetList', 1, Len(targetList)) = targetList
          /\ LET row == targetList'[Len(targetList')]
             IN  /\ row.k = "json"
                 /\ row.target_config = Obj(form.config)
                 /\ Key("target", 0) \in DOMAIN form'.doc =>
                       row.target = Obj(form'.doc[Key("target", 0)])
                 /\ Key("target", 0) \notin DOMAIN form'.doc =>
                       row.target = Missing]_vars

\* a solar-system target added after two rows that were staged before
C18_Witness ==
    /\ ev.op = "add-target" /\ ev.result = "ok"
    /\ Len(targetList) = 3
    /\ targetList[1] = EmptyRow
    /\ targetList[3].target.k = "obj"
    /\ targetList[3].target.v.pointing = "NON_SIDEREAL_TRACK"
    /\ targetList[3].target_config = Obj(form.config)

----------------------------------------------------------------------------
(* Add Target over the coordinate texts an operator may type *)

CoordRows == 2     \* rows DB TARGET LIST holds at most after Add Target

PointingTypes == {"SIDEREAL_TRACK", "NON_SIDEREAL_TRACK", "DRIFT_SCAN"}

\* coordinate texts whose RA or Dec is not a coordinate: an RA of two
\* parts, an RA with a word for the minutes, a Dec of two parts, a Dec that
\* is a word
MalformedInputs ==
    {<<Row("Target", StringValue("M31 ra:12:30, dec:41.27"))>>,
     <<Row("Target", StringValue("M31 ra:12:xx:30, dec:41.27"))>>,
     <<Row("SkyCoord", StringValue("M31 ra:10.68, dec:12:23"))>>,
     <<Row("SkyCoord", StringValue("M31 ra:10.68, dec:xx"))>>}

CoordInputs ==
    MalformedInputs \cup
    {<<Row("SkyCoord", StringValue("M31 ra:10.68, dec:41.27"))>>,
     <<Row("Target", StringValue("M31 ra:12h30m49s, dec::12:23:28"))>>,
     <<Row("Target", StringValue("M31 ra:25:00:00, dec:95"))>>,
     <<Row("Target", StringValue("M31"))>>,
     <<Row("AltAz", StringValue("alt:45 az:180"))>>,
     <<Row("Solar System", StringValue("Sun"))>>,
     <<Row("Pointing", StringValue("Sidereal Track")),
       Row("AltAz", StringValue("alt:45 az:180"))>>,
     <<Row("Pointing", StringValue("raster")),
       Row("Solar System", StringValue("Sun"))>>,
     <<Row("Pointing", StringValue("drift scan")),
       Row("SkyCoord", StringValue("M31"))>>}

InitCoord ==
    /\ lookupAK = EmptyAK
    /\ lookupAL = EmptyAL
    /\ targetList \in
          {<<>>,
           <<JsonRow(Obj(TargetModel("DRIFT_SCAN", "altaz", NoId)),
                     Obj(ConfigAt(408)))>>}
    /\ obsStore = <<>>
    /\ now = 0
    /\ ev = StartEvent
    /\ exec = IdleExec
    /\ bc = IdleCount
    /\ form = IdleForm
    /\ calc = IdleCalc
    /\ run = IdleRun

NextCoord ==
    \/ /\ \E rows \in CoordInputs : EnterTarget(rows, ConfigAt(1420))
       /\ UNCHANGED <<now, exec, bc, calc, run>>
    \/ /\ AddTargetFromForm
       /\ Len(targetList') <= CoordRows
       /\ UNCHANGED <<now, exec, bc, calc, run>>

SpecCoord == InitCoord /\ [][NextCoord]_vars

\* the Target of the row written by the Add Target that has just ended
AddedTarget == targetList'[Len(targetList')].target

\* C21: the Target of every staged row carries a pointing of the
\* enumeration; a Target made of one field has DRIFT_SCAN for altaz,
\* NON_SIDEREAL_TRACK for solar_system, SIDEREAL_TRACK for skycoord and
\* target, and with a pointing override it has the upper-snake-case form of
\* the override text.
C21_PointingInEnum ==
    /\ [](\A i \in 1..Len(targetList) :
             (targetList[i].k = "json" /\ targetList[i].target.k = "obj") =>
                 /\ targetList[i].target.v.k = "target"
                 /\ targetList[i].target.v.pointing \in PointingTypes)
    /\ [][(/\ ev'.op = "add-target" /\ ev'.result = "ok"
           /\ AddedTarget.k = "obj"
           /\ AddedTarget.v.k = "target") =>
             LET key == getJSONKey(form.rows[Len(form.rows)].label)
                 first == form.rows[1]
             IN  IF getJSONKey(first.label) = "pointing"
                 THEN AddedTarget.v.pointing = PointingName(first.value.s)
                 ELSE AddedTarget.v.pointing =
                         CASE key = "altaz" -> "DRIFT_SCAN"
                           [] key = "solar_system" -> "NON_SIDEREAL_TRACK"
                           [] OTHER -> "SIDEREAL_TRACK"]_vars

\* C23: every ICRS coordinate of a staged row has its right ascension in
\* [0, 360) and its declination in [-90, 90].
C23_IcrsInRange ==
    \A i \in 1..Len(targetList) :
       (/\ targetList[i].k = "json"
        /\ targetList[i].target.k = "obj"
        /\ targetList[i].target.v.k = "target"
        /\ targetList[i].target.v.coord = "icrs") =>
           /\ targetList[i].target.v.ra >= 0
           /\ targetList[i].target.v.ra < 360 * PerDegree
           /\ targetList[i].target.v.dec >= -90 * PerDegree
           /\ targetList[i].target.v.dec <= 90 * PerDegree

\* C26: an Add Target whose coordinate text is malformed ends with an error,
\* appends no row and leaves the staged rows as they were.
C26_MalformedTextAborts ==
    [][(ev'.op = "add-target" /\ form.rows \in MalformedInputs) =>
          /\ ev'.result = "error"
          /\ targetList' = targetList]_vars

----------------------------------------------------------------------------
(* Angles: wrap180 over whole degrees *)

MaxAngle == 720    \* angles run over -MaxAngle .. MaxAngle

\* a % b of JavaScript for b > 0: the result has the sign of a
Rem(a, b) == IF a >= 0 THEN a % b ELSE -((-a) % b)

\* ((a + 180) % 360) - 180, without the second reduction
wrap180Once(a) == Rem(a + 180, 360) - 180

wrap180(a) == Rem(Rem(a + 180, 360) + 360, 360) - 180

CalcFrame ==
    UNCHANGED <<lookupAK, lookupAL, targetList, obsStore, now, ev, exec, bc, form, run>>

InitCalc(start) ==
    /\ lookupAK = EmptyAK
    /\ lookupAL = EmptyAL
    /\ targetList = <<>>
    /\ obsStore = <<>>
    /\ now = 0
    /\ ev = StartEvent
    /\ exec = IdleExec
    /\ bc = IdleCount
    /\ form = IdleForm
    /\ calc \in start
    /\ run = IdleRun

InitWrap == InitCalc({[pc |-> "angle", a |-> a] : a \in -MaxAngle..MaxAngle})

Wrap ==
    /\ calc.pc = "angle"
    /\ calc' = [pc |-> "wrapped", a |-> calc.a, v |-> wrap180(calc.a)]
    /\ CalcFrame

WrapAgain ==
    /\ calc.pc = "wrapped"
    /\ calc' = [pc |-> "rewrapped", a |-> calc.a, v |-> calc.v,
                w |-> wrap180(calc.v)]
    /\ CalcFrame

NextWrap == Wrap \/ WrapAgain

SpecWrap == InitWrap /\ [][NextWrap]_vars

\* C27: for every whole angle a, wrap180(a) lies in [-180, 180), differs
\* from a by a multiple of 360, and wrapping it again changes nothing.
C27_WrapInRangeIdempotent ==
    /\ calc.pc \in {"wrapped", "rewrapped"} =>
          /\ calc.v >= -180 /\ calc.v < 180
          /\ (calc.v - calc.a) % 360 = 0
    /\ calc.pc = "rewrapped" => calc.w = calc.v

\* an angle below -360 wrapped twice
C27_Witness ==
    /\ calc.pc = "rewrapped"
    /\ calc.a = -541
    /\ calc.v = 179

----------------------------------------------------------------------------
(* generateAltitudeData: the samples of one day and the horizon crossings  *)
(* of the Sun.  The Sun's altitude at each sample is given by the day; the *)
(* run starts after RA, Dec and the observer's position have been read.    *)

stepMinutes == 15
DayMinutes == 1440              \* 24 * 60
DayMs == 86400000               \* 24 * 60 * 60 * 1000

\* Math.ceil(a / b) for a >= 0, b > 0
Ceil(a, b) == (a + b - 1) \div b

points == Ceil(DayMinutes, stepMinutes)

\* the instant of sample i, every sample on the step grid
SampleTimeOnGrid(start, i) == start + i * stepMinutes * 60 * 1000

\* the instant of sample i
SampleTime(start, i) ==
    IF i < points
    THEN start + i * stepMinutes * 60 * 1000
    ELSE start + (i * stepMinutes - 1) * 60 * 1000

\* a crossing is taken whenever it is seen
CrossingLatest(seen, found, t) == IF seen THEN <<t>> ELSE found

\* sunrise / sunset after a sample: set when the crossing is seen and the
\* variable is still null (<<>>)
Crossing(seen, found, t) == IF seen /\ found = <<>> THEN <<t>> ELSE found

\* Utilities.formatDate(date, tz, "HH:mm:ss") for a day that starts at
\* midnight of the sheet's time zone: the second of the day
FormatTimeOfDay(start, t) == ((t - start) \div 1000) % (DayMs \div 1000)

\* sunrise ? formatDate(sunrise) : "No sunrise"
CrossingCell(start, found, none) ==
    IF found # <<>> THEN [k |-> "time", s |-> FormatTimeOfDay(start, found[1])]
    ELSE [k |-> "text", s |-> none]

\* the samples from which the sign of the Sun's altitude may change
Marks == {0, 1, 2, 48, 96}
Days == [Marks -> {-1, 0, 1}]
DayStarts == {0, DayMs}

\* computeAltitudeDeg of the Sun at sample i: only its sign is kept
SunAltitude(day, i) == day[CHOOSE k \in Marks : k <= i /\ \A j \in Marks : j <= i => j <= k]

InitDay ==
    InitCalc({[pc |-> "sampling", start |-> s, day |-> d, i |-> 0, rows |-> <<>>,
               sunrise |-> <<>>, sunset |-> <<>>, lastSunAlt |-> 0,
               sunriseCell |-> [k |-> "text", s |-> ""],
               sunsetCell |-> [k |-> "text", s |-> ""]] :
                  s \in DayStarts, d \in Days})

\* one pass of the loop body
Sample ==
    /\ calc.pc = "sampling"
    /\ calc.i <= points
    /\ LET i == calc.i
           t == SampleTime(calc.start, i)
           sunAlt == SunAltitude(calc.day, i)
       IN  calc' = [calc EXCEPT
                      !.i = i + 1,
                      !.sunrise = Crossing(i > 0 /\ calc.lastSunAlt < 0 /\ sunAlt >= 0,
                                           calc.sunrise, t),
                      !.sunset = Crossing(i > 0 /\ calc.lastSunAlt > 0 /\ sunAlt <= 0,
                                          calc.sunset, t),
                      !.lastSunAlt = sunAlt,
                      !.rows = Append(calc.rows, [t |-> t, sunAlt |-> sunAlt])]
    /\ CalcFrame

\* after the loop: the rows and the two crossings are written to AltitudeData
WriteAltitudeData ==
    /\ calc.pc = "sampling"
    /\ calc.i > points
    /\ calc' = [calc EXCEPT
                  !.pc = "written",
                  !.sunriseCell = CrossingCell(calc.start, calc.sunrise, "No sunrise"),
                  !.sunsetCell = CrossingCell(calc.start, calc.sunset, "No sunset")]
    /\ CalcFrame

NextDay == Sample \/ WriteAltitudeData

SpecDay == InitDay /\ [][NextDay]_vars

\* C30: the day has 97 samples; sample i of 0..95 is at dayStart + 15 i
\* minutes, the last one at dayStart + 24 h - 1 min; the instants increase
\* strictly and lie in [dayStart, dayStart + 24 h).
C30_NinetySevenSamples ==
    calc.pc = "written" =>
        /\ Len(calc.rows) = 97
        /\ \A i \in 0..95 : calc.rows[i + 1].t = calc.start + 15 * i * MinuteMs
        /\ calc.rows[97].t = calc.start + DayMs - MinuteMs
        /\ \A i \in 1..96 : calc.rows[i].t < calc.rows[i + 1].t
        /\ \A i \in 1..97 : calc.rows[i].t >= calc.start /\ calc.rows[i].t < calc.start + DayMs

\* a day that starts one day after the epoch, sampled to its end
C30_Witness ==
    /\ calc.pc = "written"
    /\ calc.start = DayMs
    /\ calc.rows[1].t = DayMs
    /\ calc.rows[97].t = 2 * DayMs - MinuteMs

\* the samples (numbered from 0) at which the Sun is seen to rise / to set
Risings(rows) ==
    {i \in 1..(Len(rows) - 1) : rows[i].sunAlt < 0 /\ rows[i + 1].sunAlt >= 0}
Settings(rows) ==
    {i \in 1..(Len(rows) - 1) : rows[i].sunAlt > 0 /\ rows[i + 1].sunAlt <= 0}

\* the cell written for the crossings seen at the samples in set
FirstCrossingCell(rows, start, set, none) ==
    IF set = {} THEN [k |-> "text", s |-> none]
    ELSE LET i == CHOOSE x \in set : \A y \in set : x <= y
         IN  [k |-> "time", s |-> (rows[i + 1].t - start) \div 1000]

\* C29: sunrise and sunset, once set, keep their value to the end of the
\* sampling; what is written is the instant of the first sample at which
\* the Sun's altitude has gone from below 0 to 0 or above (sunrise), from
\* above 0 to 0 or below (sunset), and "No sunrise" / "No sunset" when the
\* day has no such sample.
C29_FirstCrossingOnly ==
    /\ [][/\ calc.sunrise # <<>> => calc'.sunrise = calc.sunrise
          /\ calc.sunset # <<>> => calc'.sunset = calc.sunset]_vars
    /\ [](calc.pc = "written" =>
            /\ calc.sunriseCell =
                  FirstCrossingCell(calc.rows, calc.start, Risings(calc.rows), "No sunrise")
            /\ calc.sunsetCell =
                  FirstCrossingCell(calc.rows, calc.start, Settings(calc.rows), "No sunset"))

\* a day on which the Sun rises at the first step, sets, and rises again at
\* the last sample: the sunrise written is the one of the first step
C29_Witness ==
    /\ calc.pc = "written"
    /\ Cardinality(Risings(calc.rows)) = 2
    /\ calc.sunriseCell = [k |-> "time", s |-> 900]
    /\ calc.sunsetCell.k = "time"

----------------------------------------------------------------------------
(* Altitude of an object: computeAltitudeDeg and computeAltitude.  Numbers *)
(* of finite precision are multiples of 1 / Unit, every operation rounds   *)
(* its result to the nearest of them; angles are whole degrees.            *)

Unit == 10000

\* round(sin(d degrees) * Unit) for d = 0 .. 90
SinTable ==
    <<    0,  175,  349,  523,  698,  872, 1045, 1219, 1392, 1564,
       1736, 1908, 2079, 2250, 2419, 2588, 2756, 2924, 3090, 3256,
       3420, 3584, 3746, 3907, 4067, 4226, 4384, 4540, 4695, 4848,
       5000, 5150, 5299, 5446, 5592, 5736, 5878, 6018, 6157, 6293,
       6428, 6561, 6691, 6820, 6947, 7071, 7193, 7314, 7431, 7547,
       7660, 7771, 7880, 7986, 8090, 8192, 8290, 8387, 8480, 8572,
       8660, 8746, 8829, 8910, 8988, 9063, 9135, 9205, 9272, 9336,
       9397, 9455, 9511, 9563, 9613, 9659, 9703, 9744, 9781, 9816,
       9848, 9877, 9903, 9925, 9945, 9962, 9976, 9986, 9994, 9998,
      10000>>

Abs(x) == IF x < 0 THEN -x ELSE x

\* Math.sin(d * Math.PI / 180)
Sin(d) ==
    LET r == d % 360
    IN  IF r <= 90 THEN SinTable[r + 1]
        ELSE IF r <= 180 THEN SinTable[180 - r + 1]
        ELSE IF r <= 270 THEN -SinTable[r - 180 + 1]
        ELSE -SinTable[360 - r + 1]

\* Math.cos(d * Math.PI / 180)
Cos(d) == Sin(d + 90)

\* a * b, rounded
Times(a, b) ==
    LET p == a * b
    IN  IF p >= 0 THEN (p + Unit \div 2) \div Unit
        ELSE -((-p + Unit \div 2) \div Unit)

NaN == [nan |-> TRUE, deg |-> 0]
Degrees(d) == [nan |-> FALSE, deg |-> d]

\* Math.asin(x) * 180 / Math.PI: NaN outside [-1, 1]
Asin(x) ==
    IF Abs(x) > Unit THEN NaN
    ELSE LET d == CHOOSE k \in 0..90 :
                     \A j \in 0..90 : Abs(SinTable[k + 1] - Abs(x))
                                         <= Abs(SinTable[j + 1] - Abs(x))
         IN  Degrees(IF x < 0 THEN -d ELSE d)

\* sin(lat) sin(dec) + cos(lat) cos(dec) cos(H)
SinAltitude(H, decDeg, latDeg) ==
    Times(Sin(latDeg), Sin(decDeg))
      + Times(Times(Cos(latDeg), Cos(decDeg)), Cos(H))

\* Math.max(-1, Math.min(1, sinA))
Clamp(sinA) == IF sinA > Unit THEN Unit ELSE IF sinA < -Unit THEN -Unit ELSE sinA

computeAltitudeDeg(raDeg, decDeg, latDeg, lstDeg) ==
    Asin(Clamp(SinAltitude(lstDeg - raDeg, decDeg, latDeg)))

computeAltitude(raDeg, decDeg, latDeg, lstDeg) ==
    LET H0 == lstDeg - raDeg
        H1 == IF H0 < -180 THEN H0 + 360 ELSE H0
        H == IF H1 > 180 THEN H1 - 360 ELSE H1
    IN  Asin(SinAltitude(H, decDeg, latDeg))

Latitudes == {-90, -45, -12, -8, 0, 8, 12, 52, 90}
Declinations == {-90, -45, -12, -8, 0, 8, 12, 41, 90}
RightAscensions == {0, 10, 180, 352}
SiderealTimes == {0, 10, 180, 359}

InitAltitude ==
    InitCalc({[pc |-> "position", raDeg |-> ra, decDeg |-> dec, latDeg |-> lat,
               lstDeg |-> lst, alt |-> Degrees(0)] :
                  ra \in RightAscensions, dec \in Declinations,
                  lat \in Latitudes, lst \in SiderealTimes})

ComputeAltitudeDeg ==
    /\ calc.pc = "position"
    /\ calc' = [calc EXCEPT
                  !.pc = "computeAltitudeDeg",
                  !.alt = computeAltitudeDeg(calc.raDeg, calc.decDeg,
                                             calc.latDeg, calc.lstDeg)]
    /\ CalcFrame

ComputeAltitude ==
    /\ calc.pc = "position"
    /\ calc' = [calc EXCEPT
                  !.pc = "computeAltitude",
                  !.alt = computeAltitude(calc.raDeg, calc.decDeg,
                                          calc.latDeg, calc.lstDeg)]
    /\ CalcFrame

NextAltitude == ComputeAltitudeDeg \/ ComputeAltitude

SpecAltitude == InitAltitude /\ [][NextAltitude]_vars

\* C28: every altitude function returns a number, never NaN, and the number
\* lies in [-90, 90].
C28_AltitudeNeverNaN ==
    calc.pc \in {"computeAltitudeDeg", "computeAltitude"} =>
        /\ ~calc.alt.nan
        /\ calc.alt.deg >= -90 /\ calc.alt.deg <= 90

----------------------------------------------------------------------------
(* The coordinate parsers over the texts an operator types *)

\* what the operator types for the numbers a, b, c
DigitChar(k) == CHOOSE c \in Digit : DigitValue(c) = k
Digits(n) ==
    IF n < 10 THEN <<DigitChar(n)>> ELSE <<DigitChar(n \div 10), DigitChar(n % 10)>>
TwoDigits(n) == <<DigitChar(n \div 10), DigitChar(n % 10)>>
Number(n, pad) == IF pad THEN TwoDigits(n) ELSE Digits(n)

SignChars == {<<>>, <<"+">>, <<"-">>}
Spellings ==
    {"colon", "letters", "spaces", "decimal", "two-parts", "word", "leading-colon"}
Sexagesimal == {"colon", "letters", "spaces"}

Spell(fn, spelling, sign, a, b, c, pad) ==
    CASE spelling = "colon" ->
           sign \o Number(a, pad) \o <<":">> \o Number(b, pad) \o <<":">> \o Number(c, pad)
      [] spelling = "letters" ->
           sign \o Number(a, pad) \o <<IF fn = "ra" THEN "h" ELSE "d">>
                \o Number(b, pad) \o <<"m">> \o Number(c, pad) \o <<"s">>
      [] spelling = "spaces" ->
           sign \o Number(a, pad) \o <<" ">> \o Number(b, pad) \o <<" ">> \o Number(c, pad)
      [] spelling = "decimal" -> sign \o Number(a, pad) \o <<".">> \o TwoDigits(b)
      [] spelling = "two-parts" -> sign \o Number(a, pad) \o <<":">> \o Number(b, pad)
      [] spelling = "word" ->
           sign \o Number(a, pad) \o <<":", "x", "x", ":">> \o Number(c, pad)
      [] spelling = "leading-colon" ->
           <<":">> \o sign \o Number(a, pad) \o <<":">> \o Number(b, pad)
                   \o <<":">> \o Number(c, pad)

Firsts == {0, 5, 12, 23}
Seconds == {0, 23, 30}
Thirds == {0, 28, 49}

InitParse ==
    InitCalc({[pc |-> "text", fn |-> fn, form |-> spelling, sign |-> sign,
               a |-> a, b |-> b, c |-> c,
               text |-> Spell(fn, spelling, sign, a, b, c, pad), out |-> Parsed(0)] :
                  fn \in {"ra", "dec"}, spelling \in Spellings, sign \in SignChars,
                  a \in Firsts, b \in Seconds, c \in Thirds, pad \in BOOLEAN})

ParseRA ==
    /\ calc.pc = "text"
    /\ calc.fn = "ra"
    /\ calc' = [calc EXCEPT !.pc = "parsed", !.out = parseRAtoDeg(calc.text)]
    /\ CalcFrame

ParseDEC ==
    /\ calc.pc = "text"
    /\ calc.fn = "dec"
    /\ calc' = [calc EXCEPT !.pc = "parsed", !.out = parseDECtoDeg(calc.text)]
    /\ CalcFrame

NextParse == ParseRA \/ ParseDEC

SpecParse == InitParse /\ [][NextParse]_vars

\* the sign typed: -1 for "-", 1 for "+" and for none
Signum(sign) == IF sign = <<"-">> THEN -1 ELSE 1

\* C24: for a declination typed as "+DD:MM:SS", "-DD:MM:SS", "DDdMMmSSs" or
\* "DD MM SS" with whole d, m, s, parseDECtoDeg returns
\* sign * (d + m/60 + s/3600), the sign being that of the degrees token.
C24_DmsDeclination ==
    (calc.pc = "parsed" /\ calc.fn = "dec" /\ calc.form \in Sexagesimal) =>
        /\ ~calc.out.err
        /\ calc.out.v = Signum(calc.sign) * (calc.a * 3600 + calc.b * 60 + calc.c) * 100

\* C25: for whole h, m, s, parseRAtoDeg returns (h + m/60 + s/3600) * 15
\* for each of "h:m:s", "hHmMsS" and "h m s", and the number itself for a
\* decimal text.
C25_RightAscensionSpellings ==
    (calc.pc = "parsed" /\ calc.fn = "ra") =>
        /\ calc.form \in Sexagesimal =>
              /\ ~calc.out.err
              /\ calc.out.v =
                    (Signum(calc.sign) * calc.a * 3600 + calc.b * 60 + calc.c) * 100 * 15
        /\ calc.form = "decimal" =>
              /\ ~calc.out.err
              /\ calc.out.v = Signum(calc.sign) * (calc.a * 100 + calc.b) * 3600

\* "12 30 49" parsed to 187.70416.. degrees
C25_Witness ==
    /\ calc.pc = "parsed"
    /\ calc.fn = "ra"
    /\ calc.text = <<"1", "2", " ", "3", "0", " ", "4", "9">>
    /\ calc.out = Parsed(67573500)

----------------------------------------------------------------------------
(* One run of onEditHandler step by step: a submission, or the deletion of *)
(* an Observation, at the calls it makes to the sheets and to the webhook, *)
(* with Add Target of another edit running between its steps.              *)

StepStaged == 2    \* staged rows Add Target may accumulate
StepObs == 2       \* documents DB OBS LIST may hold

\* UrlFetchApp.fetch(WEBHOOK_URL, options) with muteHttpExceptions: a
\* response with its code, or an error thrown (no connection, time-out)
HookOutcomes == {"200", "500", "throws"}
UrlFetch(outcome) ==
    [thrown |-> outcome = "throws",
     code |-> IF outcome = "200" THEN 200 ELSE 500]

\* the delivery without the try / catch: the error of fetch reaches the caller
sendWebhookUncaught(toSystem, jsonStr, outcome) ==
    [to |-> toSystem, message |-> jsonStr, attempts |-> 1,
     raised |-> UrlFetch(outcome).thrown, log |-> "none"]

\* the response, or the error caught, of one fetch
Delivered(toSystem, jsonStr, response) ==
    [to |-> toSystem, message |-> jsonStr, attempts |-> 1, raised |-> FALSE,
     log |-> IF response.thrown THEN "Failed to send webhook"
             ELSE IF response.code = 200 THEN "Webhook sent successfully"
             ELSE "Webhook failed with status"]

\* sendWebhook(toSystem, jsonStr): the calls of fetch made, whether an error
\* leaves the function, and what is logged
sendWebhook(toSystem, jsonStr, outcome) ==
    Delivered(toSystem, jsonStr, UrlFetch(outcome))

\* the list with the rows that are no JSON as well
generateObsListOfAllRows(store) == SelectSeq(store, LAMBDA row : row.k # "empty")

\* generateObsList(): the rows of DB OBS LIST that parse, in sheet order
generateObsList(store) == SelectSeq(store, LAMBDA row : row.k = "json")

StepTargets == {"M31", "M42"}

\* a submission of two blocks, one of one block on the other dish, and one
\* the ledger refuses
StepSubs ==
    {Sub(Dish1, DateCell(0), DateCell(2 * HalfHour), NumCell(30)),
     Sub(Dish2, DateCell(HalfHour), DateCell(2 * HalfHour), NumCell(30)),
     Sub(Dish1, DateCell(HalfHour), DateCell(0), NumCell(30))}

\* DB OBS LIST before the run: empty, a row that is no JSON, an Observation
StepStores ==
    {<<>>, <<BadRow>>,
     <<Observation(ObsId(0, "Dish002"), "Dish002", DateCell(0), <<>>, <<>>)>>}

StartRun(op) ==
    [pc |-> "started", op |-> op, sub |-> Sub(<<>>, EmptyCell, EmptyCell, EmptyNumCell),
     staged |-> <<>>, list |-> <<>>, listed |-> FALSE, hooks |-> <<>>,
     added |-> run.added, deleted |-> run.deleted]

InitSteps ==
    /\ lookupAK = [r \in Rows |-> NoDish]
    /\ lookupAL = [r \in Rows |-> Blank]
    /\ targetList = <<>>
    /\ obsStore \in StepStores
    /\ now = 0
    /\ ev = NoEvent
    /\ exec = IdleExec
    /\ bc = IdleCount
    /\ form = IdleForm
    /\ calc = IdleCalc
    /\ run = [pc |-> "idle", op |-> "none",
              sub |-> Sub(<<>>, EmptyCell, EmptyCell, EmptyNumCell),
              staged |-> <<>>, list |-> <<>>, listed |-> FALSE, hooks |-> <<>>,
              added |-> {}, deleted |-> {}]

RunOver == run.pc \in {"idle", "done", "failed"}

\* the submission up to obs_id: the cells of OBS DESIGN are read
BeginSubmission(sub) ==
    /\ RunOver
    /\ run' = [StartRun("submit") EXCEPT !.sub = sub]
    /\ ev' = [NoEvent EXCEPT !.op = "step", !.result = "begin"]
    /\ UNCHANGED <<lookupAK, lookupAL, targetList, obsStore>>

\* targetSheet.getRange(2, 1, lastTargetRow - 1, 1).getValues()
ReadStaged ==
    /\ run.pc = "started" /\ run.op = "submit"
    /\ run' = [run EXCEPT !.pc = "read", !.staged = targetList]
    /\ ev' = [NoEvent EXCEPT !.op = "step", !.result = "read"]
    /\ UNCHANGED <<lookupAK, lookupAL, targetList, obsStore>>

\* the Observation assembled from the rows read
StepObservation(sub, staged, obs_id) ==
    Observation(obs_id, DishId(sub.dish), sub.start,
                AssembleTargets(staged, Len(staged), obs_id),
                AssembleConfigs(staged, Len(staged), obs_id))

\* obsSheet.getRange("A" + writeRow).setValue(obsJsonStr)
WriteObservation ==
    /\ run.pc = "read"
    /\ obsStore' = AppendRow(obsStore,
                             StepObservation(run.sub, run.staged,
                                             ObsId(FormatMinute(run.sub.start.t),
                                                   DishId(run.sub.dish))))
    /\ run' = [run EXCEPT !.pc = "written"]
    /\ ev' = [NoEvent EXCEPT !.op = "step", !.result = "written"]
    /\ UNCHANGED <<lookupAK, lookupAL, targetList>>

\* the ledger after updateConsumedBlocks and clearExpiredBlocks, or the run
\* ended by the error thrown
LedgerUpdated(upd) ==
    IF upd.err # ""
    THEN /\ run' = [run EXCEPT !.pc = "failed"]
         /\ UNCHANGED <<lookupAK, lookupAL>>
    ELSE /\ upd.writeRow + upd.n - 1 <= MaxRow
         /\ lookupAK' = upd.ak
         /\ lookupAL' = clearExpiredBlocks(upd.ak, upd.al, now, MaxRow)
         /\ run' = [run EXCEPT !.pc = "ledger"]

\* updateConsumedBlocks(dsh_id); clearExpiredBlocks()
UpdateLedger ==
    /\ run.pc = "written"
    /\ LedgerUpdated(updateConsumedBlocks(lookupAK, lookupAL, DishId(run.sub.dish),
                                          run.sub.start, run.sub.end,
                                          run.sub.block, MaxRow))
    /\ ev' = [NoEvent EXCEPT !.op = "step", !.result = "ledger"]
    /\ UNCHANGED <<targetList, obsStore>>

\* targetSheet.getRange("A2:A").clearContent()
ClearStaged ==
    /\ run.pc = "ledger"
    /\ targetList' = <<>>
    /\ run' = [run EXCEPT !.pc = "cleared"]
    /\ ev' = [NoEvent EXCEPT !.op = "step", !.result = "cleared"]
    /\ UNCHANGED <<lookupAK, lookupAL, obsStore>>

\* the names of the targets in a row of DB OBS LIST
TargetNames(row) ==
    IF row.k = "json" THEN {row.targets[i].name : i \in 1..Len(row.targets)} ELSE {}

\* Delete Observation up to the reset of its checkbox
DeleteObservationStep(k) ==
    /\ RunOver
    /\ k \in 1..Len(obsStore)
    /\ DeleteObservation(k)
    /\ run' = [StartRun("delete-observation") EXCEPT
                  !.pc = "cleared",
                  !.deleted = run.deleted \cup TargetNames(obsStore[k])]

\* obsListJSON = generateObsList()
ListObservations ==
    /\ run.pc = "cleared"
    /\ run' = [run EXCEPT !.pc = "listed", !.list = generateObsList(obsStore),
                          !.listed = TRUE]
    /\ ev' = [NoEvent EXCEPT !.op = "step", !.result = "listed"]
    /\ UNCHANGED <<lookupAK, lookupAL, targetList, obsStore>>

\* the handler after sendWebhook has returned, or ended by its error
Sent(delivery) ==
    run' = [run EXCEPT !.pc = IF delivery.raised THEN "failed" ELSE "done",
                       !.hooks = Append(run.hooks, delivery)]

\* sendWebhook("odt", obsListJSON)
SendWebhook(outcome) ==
    /\ run.pc = "listed"
    /\ Sent(sendWebhook("odt", run.list, outcome))
    /\ ev' = [NoEvent EXCEPT !.op = "webhook", !.result = outcome]
    /\ UNCHANGED <<lookupAK, lookupAL, targetList, obsStore>>

\* Add Target of another edit, between two steps of the run
AddTargetStep(name) ==
    /\ name \notin run.added
    /\ Len(targetList) < StepStaged
    /\ AddTarget(Obj(name), ConfigAt(1420))
    /\ run' = [run EXCEPT !.added = run.added \cup {name}]

NextSteps ==
    \/ /\ \E sub \in StepSubs : Len(obsStore) < StepObs /\ BeginSubmission(sub)
       /\ UNCHANGED <<now, exec, bc, form, calc>>
    \/ /\ ReadStaged
       /\ UNCHANGED <<now, exec, bc, form, calc>>
    \/ /\ WriteObservation
       /\ UNCHANGED <<now, exec, bc, form, calc>>
    \/ /\ UpdateLedger
       /\ UNCHANGED <<now, exec, bc, form, calc>>
    \/ /\ ClearStaged
       /\ UNCHANGED <<now, exec, bc, form, calc>>
    \/ /\ \E k \in 1..StepObs : DeleteObservationStep(k)
       /\ UNCHANGED <<now, exec, bc, form, calc>>
    \/ /\ ListObservations
       /\ UNCHANGED <<now, exec, bc, form, calc>>
    \/ /\ \E outcome \in HookOutcomes : SendWebhook(outcome)
       /\ UNCHANGED <<now, exec, bc, form, calc>>
    \/ /\ \E name \in StepTargets : AddTargetStep(name)
       /\ UNCHANGED <<now, exec, bc, form, calc>>

SpecSteps == InitSteps /\ [][NextSteps]_vars

\* C31: whatever the HTTP call does (200, another status, an error thrown),
\* sendWebhook makes one call of fetch, no error leaves it (the handler goes
\* on to its end), and DB OBS LIST, DB TARGET LIST and the ledger are after
\* the call what they were before it.
C31_WebhookFireAndForget ==
    [][ev'.op = "webhook" =>
          /\ Len(run'.hooks) = Len(run.hooks) + 1
          /\ run'.hooks[Len(run'.hooks)].attempts = 1
          /\ ~run'.hooks[Len(run'.hooks)].raised
          /\ run'.pc = "done"
          /\ obsStore' = obsStore
          /\ targetList' = targetList
          /\ lookupAK' = lookupAK
          /\ lookupAL' = lookupAL]_vars

\* a delivery that ended with an error thrown by fetch, after a submission
\* that had written to the stores
C31_Witness ==
    /\ ev.op = "webhook"
    /\ ev.result = "throws"
    /\ run.op = "submit"
    /\ run.pc = "done"
    /\ Len(obsStore) = 2
    /\ run.hooks[1].log = "Failed to send webhook"

----------------------------------------------------------------------------
(* get_simbad_query_results: the answer of the SIMBAD TAP service as a     *)
(* table for a sheet formula                                               *)

SimbadRows == 3    \* rows the service may answer with

\* the rows Utilities.parseCsv makes of the answer
SimbadRow == {<<"main_id">>, <<"M31", "10.68">>}
SimbadTables == UNION {[1..n -> SimbadRow] : n \in 0..SimbadRows}

\* UrlFetchApp.fetch(url, {muteHttpExceptions: true}): an error thrown, or a
\* response with its code and text
SimbadResponses ==
    {[thrown |-> TRUE, code |-> 0, rows |-> <<>>]}
    \cup {[thrown |-> FALSE, code |-> c, rows |-> t] :
             c \in {200, 404, 500}, t \in SimbadTables}

SimbadQueries == {"", "SELECT TOP 10 main_id, ra FROM basic"}

\* what the function gives back: a table, or the error that leaves it
Returned(table) == [raised |-> FALSE, table |-> table]
ErrorTable(message) == Returned(<<<<"Error", message>>>>)

\* the body of try after parseCsv: for no row, sheet.getRange is evaluated
\* with no sheet declared in the function or globally, the ReferenceError
\* is caught by the catch of the function
RowsReturned(rows) ==
    IF Len(rows) = 0 THEN ErrorTable("ReferenceError: sheet is not defined")
    ELSE Returned(rows)

get_simbad_query_results(adql_query, response) ==
    IF adql_query = "" THEN ErrorTable("Empty input")
    ELSE IF response.thrown THEN ErrorTable("fetch failed")
    ELSE IF response.code # 200 THEN ErrorTable("Bad response code")
    ELSE RowsReturned(response.rows)

InitSimbad ==
    InitCalc({[pc |-> "query", adql_query |-> q, response |-> r] :
                 q \in SimbadQueries, r \in SimbadResponses})

GetSimbadQueryResults ==
    /\ calc.pc = "query"
    /\ calc' = [pc |-> "returned", adql_query |-> calc.adql_query,
                response |-> calc.response,
                result |-> get_simbad_query_results(calc.adql_query, calc.response)]
    /\ CalcFrame

NextSimbad == GetSimbadQueryResults

SpecSimbad == InitSimbad /\ [][NextSimbad]_vars

\* C32: get_simbad_query_results lets no error out; when fetch throws or the
\* response code is not 200 it returns the one-row table ("Error", message),
\* and when the response is 200 with no row it returns the one-row table
\* ("Warning", "No data returned").
C32_SimbadNeverRaises ==
    calc.pc = "returned" =>
       /\ ~calc.result.raised
       /\ (calc.adql_query # "" /\ (calc.response.thrown \/ calc.response.code # 200))
             => (Len(calc.result.table) = 1 /\ calc.result.table[1][1] = "Error")
       /\ (calc.adql_query # "" /\ ~calc.response.thrown
             /\ calc.response.code = 200 /\ calc.response.rows = <<>>)
             => calc.result.table = <<<<"Warning", "No data returned">>>>

----------------------------------------------------------------------------
(* One append to the ledger: the inputs are drawn, updateConsumedBlocks     *)
(* writes its rows                                                         *)

\* the ledger before the call: empty, or holding an entry of another dish
AppendLedgers ==
    {[ak |-> [r \in Rows |-> NoDish], al |-> [r \in Rows |-> Blank]],
     [ak |-> [r \in Rows |-> IF r = LedgerFirstRow THEN "Dish002" ELSE NoDish],
      al |-> [r \in Rows |-> IF r = LedgerFirstRow THEN 0 ELSE Blank]]}

InitAppend ==
    /\ \E ledger \in AppendLedgers : lookupAK = ledger.ak /\ lookupAL = ledger.al
    /\ targetList = <<>>
    /\ obsStore = <<>>
    /\ now = 0
    /\ ev = NoEvent
    /\ exec = IdleExec
    /\ form = IdleForm
    /\ calc = IdleCalc
    /\ run = IdleRun
    /\ \E s \in CountStarts, d \in CountDurations, z \in CountSizes :
          bc = [pc |-> "ready", start |-> s, end |-> s + d, size |-> z,
                blocks |-> 0, writeRow |-> 0]

\* lookup.getRange(writeRow, col, rows.length, 2).setValues(rows), or the
\* error thrown before it
BlocksWritten(upd) ==
    /\ upd.err = "" => upd.writeRow + upd.n - 1 <= MaxRow
    /\ lookupAK' = upd.ak
    /\ lookupAL' = upd.al
    /\ bc' = [bc EXCEPT !.pc = IF upd.err = "" THEN "done" ELSE "error",
                        !.blocks = upd.n, !.writeRow = upd.writeRow]

AppendBlocks ==
    /\ bc.pc = "ready"
    /\ BlocksWritten(updateConsumedBlocks(lookupAK, lookupAL, "Dish001",
                        DateCell(bc.start), DateCell(bc.end), NumCell(bc.size), 1))
    /\ UNCHANGED <<targetList, obsStore, now, ev, exec, form, calc, run>>

NextAppend == AppendBlocks

SpecAppend == InitAppend /\ [][NextAppend]_vars

\* C33: a completed updateConsumedBlocks for dish D, start S and n blocks
\* writes n ledger entries on consecutive rows after the entries there, the
\* i-th being (D, S + i * blockMs) for i = 0 .. n-1, and nothing else; the
\* blocks cover the span: S + n * blockMs >= end and S + (n-1) * blockMs < end.
C33_BlocksCoverTheSpan ==
    [][bc'.pc = "done" =>
          /\ \A r \in Rows :
                IF r >= bc'.writeRow /\ r < bc'.writeRow + bc'.blocks
                THEN /\ lookupAK[r] = NoDish /\ lookupAL[r] = Blank
                     /\ lookupAK'[r] = "Dish001"
                     /\ lookupAL'[r] = bc.start + (r - bc'.writeRow) * bc.size * MinuteMs
                ELSE /\ lookupAK'[r] = lookupAK[r] /\ lookupAL'[r] = lookupAL[r]
                     /\ (lookupAK[r] # NoDish => r < bc'.writeRow)
          /\ bc'.blocks >= 1
          /\ bc.start + bc'.blocks * bc.size * MinuteMs >= bc.end
          /\ bc.start + (bc'.blocks - 1) * bc.size * MinuteMs < bc.end]_vars

----------------------------------------------------------------------------
(* Deletions from DB TARGET LIST and DB OBS LIST holding several rows *)

DeleteRows == 3    \* rows a store holds before the deletion

\* staged rows, one of them no JSON
DeleteTargets ==
    {JsonRow(Obj("M31"), Obj(ConfigAt(1420))),
     JsonRow(Obj("M42"), Obj(ConfigAt(1420))),
     BadRow}

\* Observations of two dishes
DeleteObservations ==
    {Observation(ObsId(0, d), d, DateCell(0), <<>>, <<>>) : d \in {"Dish001", "Dish002"}}

\* the columns a store can hold: every row in use, no row twice
ColumnsOf(rows) ==
    UNION {{col \in [1..n -> rows] : \A i, j \in 1..n : col[i] = col[j] => i = j} :
              n \in 0..DeleteRows}

InitDelete ==
    /\ lookupAK = EmptyAK
    /\ lookupAL = EmptyAL
    /\ targetList \in ColumnsOf(DeleteTargets)
    /\ obsStore \in ColumnsOf(DeleteObservations)
    /\ now = 0
    /\ ev = StartEvent
    /\ exec = IdleExec
    /\ bc = IdleCount
    /\ form = IdleForm
    /\ calc = IdleCalc
    /\ run = [pc |-> "idle", op |-> "none", k |-> 0]

\* the delete box of staged row k (OBS DESIGN, column F, row k + 37) ticked
DeleteTargetRun(k) ==
    /\ run.pc = "idle"
    /\ DeleteTarget(k)
    /\ run' = [pc |-> "done", op |-> "delete-target", k |-> k]

\* the delete box of Observation k (OBS STORE, column J, row k + 9) ticked
DeleteObservationRun(k) ==
    /\ run.pc = "idle"
    /\ DeleteObservation(k)
    /\ run' = [pc |-> "done", op |-> "delete-observation", k |-> k]

\* consolidateRows(sheet) once more over both sheets
ConsolidateAgain ==
    /\ run.pc = "done"
    /\ targetList' = consolidateRows(targetList)
    /\ obsStore' = consolidateRows(obsStore)
    /\ run' = [run EXCEPT !.pc = "consolidated"]
    /\ ev' = [NoEvent EXCEPT !.op = "consolidate", !.result = "ok"]
    /\ UNCHANGED <<lookupAK, lookupAL>>

NextDelete ==
    \/ /\ \E k \in 1..(DeleteRows + 1) : DeleteTargetRun(k)
       /\ UNCHANGED <<now, exec, bc, form, calc>>
    \/ /\ \E k \in 1..(DeleteRows + 1) : DeleteObservationRun(k)
       /\ UNCHANGED <<now, exec, bc, form, calc>>
    \/ /\ ConsolidateAgain
       /\ UNCHANGED <<now, exec, bc, form, calc>>

SpecDelete == InitDelete /\ [][NextDelete]_vars

\* the column without its k-th row
WithoutRow(col, k) ==
    IF k \in 1..Len(col) THEN SubSeq(col, 1, k - 1) \o SubSeq(col, k + 1, Len(col))
    ELSE col

\* C34: ticking delete for staged row k, or for Observation k, removes that
\* row of its store and no other; the rows left keep their order and are
\* on consecutive rows from row 2 with no empty row between; the other
\* store is untouched; consolidateRows run again changes nothing.
C34_DeleteRemovesOneRecord ==
    [][/\ (ev'.op = "delete-target") =>
             /\ targetList' = WithoutRow(targetList, run'.k)
             /\ \A i \in 1..Len(targetList') : targetList'[i].k # "empty"
             /\ obsStore' = obsStore
       /\ (ev'.op = "delete-observation") =>
             /\ obsStore' = WithoutRow(obsStore, run'.k)
             /\ \A i \in 1..Len(obsStore') : obsStore'[i].k # "empty"
             /\ targetList' = targetList
       /\ (ev'.op = "consolidate") =>
             /\ targetList' = targetList
             /\ obsStore' = obsStore]_vars

\* the second of three staged rows has been deleted, the row that is no
\* JSON stays, and consolidateRows has run again
C34_Witness ==
    /\ run.pc = "consolidated"
    /\ run.op = "delete-target"
    /\ run.k = 2
    /\ Len(targetList) = 2
    /\ targetList[1].k = "json"
    /\ targetList[2].k = "bad"

----------------------------------------------------------------------------
(* cleanupObservations over a DB OBS LIST of Observations in every state *)

SweepRows == 3     \* rows DB OBS LIST holds before the cleanup

ObsStates == {"EMPTY", "IN_PROGRESS", "COMPLETED", "ABORTED", "FAULT"}

\* Observations of one dish with two starts, in every state the executor
\* may have written, and a row that is no JSON
SweepRowsOf ==
    {[Observation(ObsId(FormatMinute(s), "Dish001"), "Dish001", DateCell(s), <<>>, <<>>)
         EXCEPT !.obs_state = st] : s \in {0, HalfHour}, st \in ObsStates}
    \cup {BadRow}

InitSweep ==
    /\ lookupAK = EmptyAK
    /\ lookupAL = EmptyAL
    /\ targetList = <<>>
    /\ obsStore \in UNION {[1..n -> SweepRowsOf] : n \in 0..SweepRows}
    /\ now = 0
    /\ ev = StartEvent
    /\ exec = IdleExec
    /\ bc = IdleCount
    /\ form = IdleForm
    /\ calc = IdleCalc
    /\ run = [pc |-> "idle", before |-> <<>>]

\* cleanupObservations() run once
CleanupRun ==
    /\ run.pc = "idle"
    /\ CleanupObservations
    /\ run' = [pc |-> "cleaned", before |-> obsStore]

\* cleanupObservations() run a second time
CleanupAgain ==
    /\ run.pc = "cleaned"
    /\ CleanupObservations
    /\ run' = [run EXCEPT !.pc = "again"]

NextSweep ==
    \/ /\ CleanupRun
       /\ UNCHANGED <<now, exec, bc, form, calc>>
    \/ /\ CleanupAgain
       /\ UNCHANGED <<now, exec, bc, form, calc>>

SpecSweep == InitSweep /\ [][NextSweep]_vars

\* an Observation whose obs_state is not COMPLETED, ABORTED or FAULT
Unfinished(row) ==
    row.k = "json" /\ row.obs_state \notin {"COMPLETED", "ABORTED", "FAULT"}

\* C35: after cleanupObservations DB OBS LIST holds the Observations it
\* held whose obs_state is not COMPLETED, ABORTED or FAULT, each as often
\* as before and as it was, and nothing else, on consecutive rows from
\* row 2 in ascending order of scheduling_block_start; a second run leaves
\* DB OBS LIST as the first left it.
C35_CleanupKeepsUnfinishedSorted ==
    [][ev'.op = "cleanup" =>
          /\ \A i \in 1..Len(obsStore') : Unfinished(obsStore'[i])
          /\ \A i \in 1..Len(obsStore) :
                Unfinished(obsStore[i]) =>
                   Occurrences(obsStore', obsStore[i]) = Occurrences(obsStore, obsStore[i])
          /\ \A i \in 1..Len(obsStore') : Occurrences(obsStore, obsStore'[i]) > 0
          /\ \A i, j \in 1..Len(obsStore') :
                i < j => obsStore'[i].scheduling_block_start.t
                            <= obsStore'[j].scheduling_block_start.t
          /\ run.pc = "cleaned" => obsStore' = obsStore]_vars

\* a store of three rows, the later start first and a COMPLETED Observation
\* between, cleaned twice
C35_Witness ==
    /\ run.pc = "again"
    /\ Len(run.before) = 3
    /\ run.before[1].k = "json" /\ run.before[1].scheduling_block_start.t = HalfHour
    /\ run.before[1].obs_state = "IN_PROGRESS"
    /\ run.before[2].k = "json" /\ run.before[2].obs_state = "COMPLETED"
    /\ run.before[3].k = "json" /\ run.before[3].scheduling_block_start.t = 0
    /\ run.before[3].obs_state = "EMPTY"
    /\ Len(obsStore) = 2
    /\ obsStore[1] = run.before[3]
    /\ obsStore[2] = run.before[1]

----------------------------------------------------------------------------
(* Reservations in the ledger *)

\* C36: the ledger never holds two entries with the same dish id and the
\* same block start, whatever submissions and expiries have run: two
\* submissions for one dish that overlap in time, or the same submission
\* made twice, reserve each block once.
C36_BlockReservedOnce ==
    \A r, s \in Rows :
       (/\ RowComplete(lookupAK, lookupAL, r)
        /\ RowComplete(lookupAK, lookupAL, s)
        /\ lookupAK[r] = lookupAK[s]
        /\ lookupAL[r] = lookupAL[s]) => r = s

----------------------------------------------------------------------------
(* Staged rows while a submission runs *)

\* the names of the targets staged in DB TARGET LIST
StagedNames ==
    {targetList[i].target.v : i \in {j \in 1..Len(targetList) : targetList[j].k = "json"}}

\* the names of the targets in the Observations of DB OBS LIST
StoredNames == UNION {TargetNames(obsStore[i]) : i \in 1..Len(obsStore)}

\* C37: in every state, every target appended by a completed Add Target and
\* not deleted since is in DB TARGET LIST or in an Observation of DB OBS
\* LIST, also when Add Target runs between the steps of a submission (read
\* of the staged rows, write of the Observation, clearing of the staged
\* rows).
C37_NoStagedTargetLost ==
    \A name \in run.added \ run.deleted : name \in StagedNames \cup StoredNames

----------------------------------------------------------------------------
(* The ObsList published at the end of a run *)

\* the rows of a column that are JSON, in the order of the column
RECURSIVE ParsableRows(_)
ParsableRows(col) ==
    IF col = <<>> THEN <<>>
    ELSE IF Head(col).k = "json" THEN <<Head(col)>> \o ParsableRows(Tail(col))
    ELSE ParsableRows(Tail(col))

\* C38: at the end of every completed submission and every completed
\* deletion of an Observation, the ObsList made by generateObsList and sent
\* by the webhook lists the rows of DB OBS LIST that parse, as DB OBS LIST
\* is at the end of the run and in its order; the list is made after the
\* writes to DB OBS LIST and the ledger, and the webhook is sent after the
\* list is made, with no write to them in between or after.
C38_ObsListPublishedAfterWrites ==
    /\ [](run.pc = "done" =>
             /\ run.list = ParsableRows(obsStore)
             /\ Len(run.hooks) = 1
             /\ run.hooks[1].message = ParsableRows(obsStore))
    /\ [][/\ ev'.op = "webhook" => (run.listed /\ run'.hooks[1].message = run.list)
          /\ run.pc = "listed" =>
                (obsStore' = obsStore /\ lookupAK' = lookupAK /\ lookupAL' = lookupAL)
          /\ (~run.listed /\ run'.listed) =>
                (run'.list = ParsableRows(obsStore') /\ obsStore' = obsStore)]_vars

\* a completed submission into a DB OBS LIST that held a row that is no
\* JSON: the list sent holds the Observation alone
C38_Witness ==
    /\ run.pc = "done"
    /\ run.op = "submit"
    /\ Len(obsStore) = 2
    /\ obsStore[1].k = "bad"
    /\ Len(run.list) = 1
    /\ run.list[1] = obsStore[2]
    /\ run.hooks[1].message = run.list

----------------------------------------------------------------------------
(* onEditHandler: the branch an edit event takes *)

\* the edit event: the sheet, column and row of e.range, e.value, and
\* whether the spreadsheet has a sheet DB TARGET LIST
EditSheets == {"DIG00X", "DM00X", "OBS DESIGN", "OBS STORE", "Lookup"}
EditCols == {2, 4, 5, 6, 10}
EditRows == {3, 4, 10, 25, 30, 32, 34, 38}
EditValues == {"TRUE", "FALSE", "M31"}

\* the if statements of the handler in their order, each ending in return:
\* the actions the event runs
onEditHandler(e) ==
    IF e.sheetName = "DIG00X" /\ e.col = 4 /\ e.row >= 3 /\ e.row <= 11
    THEN <<"digitiser config">>
    ELSE IF e.sheetName = "DM00X" /\ e.col = 4 /\ e.row >= 3 /\ e.row <= 4
    THEN <<"dish config">>
    ELSE IF ~e.targetSheet
    THEN <<>>
    ELSE IF \/ (e.sheetName = "OBS DESIGN" /\ e.col = 2 /\ (e.row = 25 \/ e.row = 30))
            \/ (e.col = 5 /\ e.row = 32)
    THEN <<"altitude plot">>
    ELSE IF e.sheetName = "OBS DESIGN" /\ e.col = 6 /\ e.row >= 38 /\ e.value = "TRUE"
    THEN <<"delete target">>
    ELSE IF e.sheetName = "OBS STORE" /\ e.col = 10 /\ e.row >= 10 /\ e.value = "TRUE"
    THEN <<"delete observation">>
    ELSE IF e.sheetName = "OBS DESIGN" /\ e.col = 4 /\ e.row = 3 /\ e.value = "TRUE"
    THEN <<"submission">>
    ELSE IF ~(e.col = 2 /\ e.row = 34) \/ e.value # "TRUE"
    THEN <<>>
    ELSE <<"add target">>

InitEdit ==
    InitCalc({[pc |-> "event",
               e |-> [sheetName |-> s, col |-> c, row |-> r, value |-> v,
                      targetSheet |-> t]] :
                 s \in EditSheets, c \in EditCols, r \in EditRows,
                 v \in EditValues, t \in BOOLEAN})

OnEdit ==
    /\ calc.pc = "event"
    /\ calc' = [pc |-> "handled", e |-> calc.e, ran |-> onEditHandler(calc.e)]
    /\ CalcFrame

NextEdit == OnEdit

SpecEdit == InitEdit /\ [][NextEdit]_vars

\* C39: generateAltitudeData runs only for an edit of B25, B30 or E32 of
\* sheet OBS DESIGN, never for an edit on another sheet, and every edit
\* event runs at most one of the actions of the handler.
C39_AltitudeOnlyOnObsDesign ==
    calc.pc = "handled" =>
       /\ Len(calc.ran) <= 1
       /\ (calc.ran = <<"altitude plot">>) =>
             /\ calc.e.sheetName = "OBS DESIGN"
             /\ \/ (calc.e.col = 2 /\ calc.e.row \in {25, 30})
                \/ (calc.e.col = 5 /\ calc.e.row = 32)

====
